---- MODULE Spec2Model ----
(***************************************************************************)
(* Model of package await (src/await.go): the poll loop Func, the fan-out  *)
(* workerMap and the two group operations All and First built on it.       *)
(*                                                                         *)
(* Every goroutine is a process with a program counter.  A worker is user  *)
(* code: it is described by the invocation on which it succeeds (succAt),  *)
(* by whether it waits on <-ctx.Done() before it returns (blocks), and it  *)
(* may call the caller's cancel function while it runs (WorkerCancel).     *)
(* The value or error returned by invocation k of worker n is tagged       *)
(* (n, k), so that results can be traced back to the invocation that made  *)
(* them.  Time is abstracted: the retry timer expires and the caller's     *)
(* context becomes done at arbitrary moments.                              *)
(*                                                                         *)
(* SpecFunc is one call of Func.  SpecAll and SpecFirst are one call of    *)
(* All and of First on the branch `concurrency == 0 || concurrency >=      *)
(* len(workers)`, which fans out through workerMap.                        *)
(* SpecConc adds the branch through workerPool.  SpecError renders an      *)
(* *Error; SpecUntil and SpecAwait are UntilNoError / UntilTrue and the    *)
(* Await DSL over them (src/unnamed); SpecPollAll and SpecPollFirst are    *)
(* PollAll and PollFirstResult of src/goawait.go, whose Poll has no check  *)
(* of the context before its first invocation.                             *)
(* SpecPollOne, SpecPollAllResult and SpecPollFirstResults are the         *)
(* Result-returning Poll, PollAll and PollFirst of src/goawait.go;         *)
(* SpecGroups is one call of any group operation that builds a map.        *)
(* SpecFuncFair and SpecAllFair add the scheduling assumptions under which *)
(* termination is checked.  SpecUntilTrue is UntilTrue over its adapter.   *)
(* SpecFirstPool and SpecAllPool are First and All through workerPool with *)
(* three workers (a pool of one, fairly scheduled, and a pool of two);     *)
(* SpecFirsts is First or PollFirst; SpecAnyConc also takes a negative     *)
(* concurrency argument.                                                   *)
(***************************************************************************)
EXTENDS Integers, Sequences, FiniteSets, TLC

\* Names that a worker registry may use.
Names == {"w1", "w2"}

\* The goroutines a worker pool can be made of (workerPool starts
\* `concurrency` of them).
Routines == {"g1"}

\* No poll loop starts more than MaxCalls invocations of its worker.
MaxCalls == 2

\* Elapsed times (Error.since) range over 0 .. MaxSince time units.
MaxSince == 5

VARIABLES
    op,          \* the operation the caller runs ("Func", "All", "First", ...)
    workers,     \* the worker registry (set of names)
    succAt,      \* succAt[n]: invocation on which worker n succeeds (0: never)
    blocks,      \* blocks[n]: worker n waits on <-ctx.Done() before returning
    ctxDone,     \* the caller's context is done (deadline or cancel)
    childDone,   \* First's derived context was cancelled by its cancel()
    pc,          \* pc[n]: position of the goroutine polling worker n
    calls,       \* calls[n]: worker invocations begun by n's poll loop
    err,         \* err[n]: Func's local err, the last invocation's error
    timer,       \* timer[n]: Func's retry timer: "nil", "armed", "fired", "stopped"
    res,         \* res[n]: the Result Func returned for worker n
    results,     \* the buffered results channel of workerMap
    closed,      \* the results channel is closed
    wg,          \* the WaitGroup counter of workerMap
    spc,         \* position of workerMap's spawning goroutine
    cpc,         \* position of the caller inside All / First
    out,         \* All: the map results (a function from names to Results)
    ret,         \* First: the Result it returns
    waits,       \* history: waits[n] = selects entered by n's poll loop
    expiries,    \* history: expiries[n] = timer expiries consumed by the loop
    late,        \* history: late[n] = invocations begun while the context was done
    cancelledAt, \* history: invocation during which worker n called cancel (0: none)
    sawDone,     \* history: where Func observed the context done ("no" if never)
    recvd,       \* history: the namedResults First has received, in order
    concurrency, \* the concurrency argument of All / First
    input,       \* workerPool: the buffered input channel of namedWorkers
    inputClosed, \* workerPool: the input channel is closed
    fed,         \* workerPool: the workers its feeding goroutine has sent so far
    gpc,         \* workerPool: gpc[g] = position of pool goroutine g
    gcur,        \* workerPool: gcur[g] = the worker goroutine g is polling
    givenErr,    \* Error: the worker error given at construction (or nil)
    givenSince,  \* Error: the elapsed time given at construction
    errObj,      \* Error: the *Error constructed
    errString,   \* Error: what errObj.Error() returned
    unwrapped,   \* Error: what errObj.Unwrap() returned
    maxWait,     \* Await: its maxWait field (-1: none was set)
    loopCtx,     \* UntilNoError: the context it was given: "ctx" or "timeout"
    timeoutDone, \* Await: the context made by createTimeoutContext is done
    mapLock,     \* PollAll / PollFirstResult: who holds the mutex of the Errors
                 \* map (mapLock / errsLock): a poll's name, "main", or ""
    cancelClosed, \* PollFirstResult: the channel cancel is closed
    firstClosed, \* PollFirstResult: the channel firstResult is closed
    resultsCount \* PollFirstResult: the atomic counter results

vars == <<op, workers, succAt, blocks, ctxDone, childDone, pc, calls, err,
          timer, res, results, closed, wg, spc, cpc, out, ret, waits,
          expiries, late, cancelledAt, sawDone, recvd, concurrency, input,
          inputClosed, fed, gpc, gcur, givenErr, givenSince, errObj,
          errString, unwrapped, maxWait, loopCtx, timeoutDone, mapLock,
          cancelClosed, firstClosed, resultsCount>>

pollVars == <<pc, calls, err, timer, res, waits, expiries, late, sawDone>>
chanVars == <<results, closed, wg, spc>>
callerVars == <<cpc, out, ret, recvd>>
planVars == <<op, workers, succAt, blocks, concurrency>>
poolVars == <<input, inputClosed, fed, gpc, gcur>>
errorVars == <<givenErr, givenSince, errObj, errString, unwrapped>>

\* The variables of the operations modelled apart from Func, All and First.
awaitVars == <<maxWait, loopCtx, timeoutDone>>
lockVars == <<mapLock>>
firstVars == <<cancelClosed, firstClosed, resultsCount>>
otherVars == <<errorVars, awaitVars, lockVars, firstVars>>

----------------------------------------------------------------------------
\* Values, errors and results

\* interface{} values: nil, or the value returned by invocation k of worker w.
NilVal == [w |-> "", k |-> 0]
WorkVal(n, k) == [w |-> n, k |-> k]

\* error values a worker returns, and errors.New("all worker functions failed").
NilErr == [kind |-> "nil", w |-> "", k |-> 0]
WorkErr(n, k) == [kind |-> "work", w |-> n, k |-> k]
AllFailed == [kind |-> "allfailed", w |-> "", k |-> 0]

\* *Error{errWork}; Result.Err is either nil (NoError) or an *Error.
NoError == [type |-> "nil", errWork |-> NilErr]
Error(errWork) == [type |-> "Error", errWork |-> errWork]

\* (*Error).Unwrap
Unwrap(e) == e.errWork

\* &Error{errWork: errWork, since: since}, with the elapsed time kept.
ErrorAt(errWork, since) ==
    [type |-> "Error", errWork |-> errWork, since |-> since]

\* The message of an underlying error: errors.New("all worker functions
\* failed"), or the message a worker gave to the error of its k-th invocation.
Message(e) ==
    IF e.kind = "allfailed" THEN "all worker functions failed"
    ELSE "error " \o ToString(e.k) \o " of " \o e.w

\* A time.Duration as %v prints it.
DurationString(d) == IF d = 0 THEN "0s" ELSE ToString(d) \o "ms"

\* Variant of ErrorString that prints the underlying error without testing it
\* for nil.
ErrorString_NoNilCheck(e) ==
    <<"context cancelled after ", DurationString(e.since), " : ",
      IF e.errWork # NilErr THEN Message(e.errWork) ELSE "%!s(<nil>)">>

\* (*Error).Error: the string, as the sequence of the parts Sprintf joins.
ErrorString(e) ==
    IF e.errWork # NilErr
    THEN <<"context cancelled after ", DurationString(e.since), " : ",
           Message(e.errWork)>>
    ELSE <<"context cancelled after ", DurationString(e.since)>>

\* The result of a method that was not called yet.
NotCalled == [kind |-> "none", w |-> "", k |-> 0]

\* c.Err() of a context c that is done (context.Canceled or
\* context.DeadlineExceeded), for c the caller's context "ctx" or the context
\* "timeout" made by createTimeoutContext.
CtxError(c) == [kind |-> "context", w |-> c, k |-> 0]

\* The error UntilNoError returns: nil, or &TimeoutError{Err, ErrPoll}.
NilTimeout == [type |-> "nil", Err |-> NilErr, ErrPoll |-> NilErr]
TimeoutError(e, errPoll) ==
    [type |-> "TimeoutError", Err |-> e, ErrPoll |-> errPoll]

\* Result{Value: v} and Result{Err: e}
Success(v) == [Value |-> v, Err |-> NoError]
Failure(e) == [Value |-> NilVal, Err |-> e]

NoResult == [Value |-> NilVal, Err |-> [type |-> "none", errWork |-> NilErr]]

namedResult(n, r) == [name |-> n, Result |-> r]

\* ctx.Err() != nil for the context handed to Func: the caller's context, or in
\* First the context derived from it by context.WithCancel.
CtxErr == ctxDone \/ childDone

----------------------------------------------------------------------------
\* Func: the poll loop of one worker

\* Variant of FuncEntry without the entry check of the context: the first
\* invocation begins whatever the state of the context.
FuncEntry_NoEntryCheck(n) ==
    /\ pc[n] = "start"
    /\ pc' = [pc EXCEPT ![n] = "incall"]
    /\ calls' = [calls EXCEPT ![n] = 1]
    /\ late' = [late EXCEPT ![n] = IF CtxErr THEN @ + 1 ELSE @]
    /\ UNCHANGED <<res, sawDone, err, timer, waits, expiries>>
    /\ UNCHANGED <<otherVars, planVars, poolVars, ctxDone, childDone, chanVars, callerVars, cancelledAt>>

\* Func's entry: start := time.Now(); if ctx.Err() != nil return the fast-fail
\* Failure, otherwise the first worker invocation begins.
FuncEntry(n) ==
    /\ pc[n] = "start"
    /\ IF CtxErr
       THEN /\ pc' = [pc EXCEPT ![n] = "returned"]
            /\ res' = [res EXCEPT ![n] = Failure(Error(NilErr))]
            /\ sawDone' = [sawDone EXCEPT ![n] = "entry"]
            /\ UNCHANGED calls
       ELSE /\ pc' = [pc EXCEPT ![n] = "incall"]
            /\ calls' = [calls EXCEPT ![n] = 1]
            /\ UNCHANGED <<res, sawDone>>
    /\ UNCHANGED <<err, timer, waits, expiries, late>>
    /\ UNCHANGED <<otherVars, planVars, poolVars, ctxDone, childDone, chanVars, callerVars, cancelledAt>>

\* The running worker calls the caller's cancel function inside its body
\* (a cancel of a context that is already done changes nothing).
WorkerCancel(n) ==
    /\ pc[n] = "incall"
    /\ cancelledAt[n] = 0
    /\ ctxDone' = TRUE
    /\ cancelledAt' = [cancelledAt EXCEPT ![n] = calls[n]]
    /\ UNCHANGED <<otherVars, planVars, poolVars, childDone, pollVars, chanVars, callerVars>>

\* Variant of WorkerReturn without the success short-circuit: a successful
\* invocation is treated like a failed one and the loop goes on to retry.
WorkerReturn_NoShortCircuit(n) ==
    /\ pc[n] = "incall"
    /\ blocks[n] => CtxErr
    /\ pc' = [pc EXCEPT ![n] = "failed"]
    /\ err' = [err EXCEPT ![n] =
                 IF calls[n] = succAt[n] THEN NilErr ELSE WorkErr(n, calls[n])]
    /\ UNCHANGED <<res, calls, timer, waits, expiries, late, sawDone>>
    /\ UNCHANGED <<otherVars, planVars, poolVars, ctxDone, childDone, chanVars, callerVars, cancelledAt>>

\* Variant of WorkerReturn that keeps the first error it saw instead of the
\* error of the invocation that just returned.
WorkerReturn_KeepFirstErr(n) ==
    /\ pc[n] = "incall"
    /\ blocks[n] => CtxErr
    /\ IF calls[n] = succAt[n]
       THEN /\ pc' = [pc EXCEPT ![n] = "returned"]
            /\ res' = [res EXCEPT ![n] = Success(WorkVal(n, calls[n]))]
            /\ err' = [err EXCEPT ![n] = NilErr]
       ELSE /\ pc' = [pc EXCEPT ![n] = "failed"]
            /\ err' = [err EXCEPT ![n] =
                         IF @ = NilErr THEN WorkErr(n, calls[n]) ELSE @]
            /\ UNCHANGED res
    /\ UNCHANGED <<calls, timer, waits, expiries, late, sawDone>>
    /\ UNCHANGED <<otherVars, planVars, poolVars, ctxDone, childDone, chanVars, callerVars, cancelledAt>>

\* Variant of WorkerReturn in which a failed invocation cancels the context
\* shared by the group (stop-on-first-error).
WorkerReturn_CancelOnError(n) ==
    /\ pc[n] = "incall"
    /\ blocks[n] => CtxErr
    /\ IF calls[n] = succAt[n]
       THEN /\ pc' = [pc EXCEPT ![n] = "returned"]
            /\ res' = [res EXCEPT ![n] = Success(WorkVal(n, calls[n]))]
            /\ err' = [err EXCEPT ![n] = NilErr]
            /\ UNCHANGED ctxDone
       ELSE /\ pc' = [pc EXCEPT ![n] = "failed"]
            /\ err' = [err EXCEPT ![n] = WorkErr(n, calls[n])]
            /\ ctxDone' = TRUE
            /\ UNCHANGED res
    /\ UNCHANGED <<calls, timer, waits, expiries, late, sawDone>>
    /\ UNCHANGED <<otherVars, planVars, poolVars, childDone, chanVars, callerVars, cancelledAt>>

\* value, err := worker(ctx) returns; if err == nil { return Result{Value: value} }
WorkerReturn(n) ==
    /\ pc[n] = "incall"
    /\ blocks[n] => CtxErr
    /\ IF calls[n] = succAt[n]
       THEN /\ pc' = [pc EXCEPT ![n] = "returned"]
            /\ res' = [res EXCEPT ![n] = Success(WorkVal(n, calls[n]))]
            /\ err' = [err EXCEPT ![n] = NilErr]
       ELSE /\ pc' = [pc EXCEPT ![n] = "failed"]
            /\ err' = [err EXCEPT ![n] = WorkErr(n, calls[n])]
            /\ UNCHANGED res
    /\ UNCHANGED <<calls, timer, waits, expiries, late, sawDone>>
    /\ UNCHANGED <<otherVars, planVars, poolVars, ctxDone, childDone, chanVars, callerVars, cancelledAt>>

\* Variant of CheckCtx without the check of ctx.Err() after a failed invocation:
\* the loop always goes on to the select.
CheckCtx_NoCtxCheck(n) ==
    /\ pc[n] = "failed"
    /\ pc' = [pc EXCEPT ![n] = "select"]
    /\ timer' = [timer EXCEPT ![n] = IF @ = "nil" THEN "armed" ELSE @]
    /\ waits' = [waits EXCEPT ![n] = @ + 1]
    /\ UNCHANGED <<res, sawDone, calls, err, expiries, late>>
    /\ UNCHANGED <<otherVars, planVars, poolVars, ctxDone, childDone, chanVars, callerVars, cancelledAt>>

\* Variant of CheckCtx with a maximum retry count: after the second failed
\* invocation it gives up and returns the Failure, the context done or not.
CheckCtx_MaxRetries(n) ==
    /\ pc[n] = "failed"
    /\ IF CtxErr \/ calls[n] >= 2
       THEN /\ pc' = [pc EXCEPT ![n] = "returned"]
            /\ res' = [res EXCEPT ![n] = Failure(Error(err[n]))]
            /\ sawDone' = [sawDone EXCEPT ![n] = IF CtxErr THEN "check" ELSE @]
            /\ UNCHANGED <<timer, waits>>
       ELSE /\ pc' = [pc EXCEPT ![n] = "select"]
            /\ timer' = [timer EXCEPT ![n] = IF @ = "nil" THEN "armed" ELSE @]
            /\ waits' = [waits EXCEPT ![n] = @ + 1]
            /\ UNCHANGED <<res, sawDone>>
    /\ UNCHANGED <<calls, err, expiries, late>>
    /\ UNCHANGED <<otherVars, planVars, poolVars, ctxDone, childDone, chanVars, callerVars, cancelledAt>>

\* After a failed invocation: if ctx.Err() != nil return the Failure; otherwise
\* create the retry timer if there is none and enter the select.
CheckCtx(n) ==
    /\ pc[n] = "failed"
    /\ IF CtxErr
       THEN /\ pc' = [pc EXCEPT ![n] = "returned"]
            /\ res' = [res EXCEPT ![n] = Failure(Error(err[n]))]
            /\ sawDone' = [sawDone EXCEPT ![n] = "check"]
            /\ UNCHANGED <<timer, waits>>
       ELSE /\ pc' = [pc EXCEPT ![n] = "select"]
            /\ timer' = [timer EXCEPT ![n] = IF @ = "nil" THEN "armed" ELSE @]
            /\ waits' = [waits EXCEPT ![n] = @ + 1]
            /\ UNCHANGED <<res, sawDone>>
    /\ UNCHANGED <<calls, err, expiries, late>>
    /\ UNCHANGED <<otherVars, planVars, poolVars, ctxDone, childDone, chanVars, callerVars, cancelledAt>>

\* The retry interval elapses: the running timer sends on retry.C.  (Once Func
\* has returned nothing reads the timer any more.)
TimerExpire(n) ==
    /\ pc[n] \in {"incall", "failed", "select"}
    /\ timer[n] = "armed"
    /\ timer' = [timer EXCEPT ![n] = "fired"]
    /\ UNCHANGED <<pc, calls, err, res, waits, expiries, late, sawDone>>
    /\ UNCHANGED <<otherVars, planVars, poolVars, ctxDone, childDone, chanVars, callerVars, cancelledAt>>

\* Variant of SelectDone that returns the worker's error as it is, not wrapped
\* in an *Error.
SelectDone_RawError(n) ==
    /\ pc[n] = "select"
    /\ CtxErr
    /\ pc' = [pc EXCEPT ![n] = "returned"]
    /\ timer' = [timer EXCEPT ![n] = "stopped"]
    /\ res' = [res EXCEPT ![n] = Failure(err[n])]
    /\ sawDone' = [sawDone EXCEPT ![n] = "select"]
    /\ UNCHANGED <<calls, err, waits, expiries, late>>
    /\ UNCHANGED <<otherVars, planVars, poolVars, ctxDone, childDone, chanVars, callerVars, cancelledAt>>

\* Variant of SelectDone that stops the timer but lacks the return: the loop
\* goes on and invokes the worker again.
SelectDone_NoReturn(n) ==
    /\ pc[n] = "select"
    /\ CtxErr
    /\ calls[n] < MaxCalls
    /\ pc' = [pc EXCEPT ![n] = "incall"]
    /\ timer' = [timer EXCEPT ![n] = "stopped"]
    /\ calls' = [calls EXCEPT ![n] = @ + 1]
    /\ late' = [late EXCEPT ![n] = @ + 1]
    /\ sawDone' = [sawDone EXCEPT ![n] = "select"]
    /\ UNCHANGED <<err, res, waits, expiries>>
    /\ UNCHANGED <<otherVars, planVars, poolVars, ctxDone, childDone, chanVars, callerVars, cancelledAt>>

\* Variant of SelectDone that looks at ctx.Done() only when the retry interval
\* has elapsed: a done context does not end the wait by itself.
SelectDone_WaitsForTimer(n) ==
    /\ pc[n] = "select"
    /\ CtxErr
    /\ timer[n] = "fired"
    /\ pc' = [pc EXCEPT ![n] = "returned"]
    /\ timer' = [timer EXCEPT ![n] = "stopped"]
    /\ res' = [res EXCEPT ![n] = Failure(Error(err[n]))]
    /\ sawDone' = [sawDone EXCEPT ![n] = "select"]
    /\ UNCHANGED <<calls, err, waits, expiries, late>>
    /\ UNCHANGED <<otherVars, planVars, poolVars, ctxDone, childDone, chanVars, callerVars, cancelledAt>>

\* select case <-ctx.Done(): retry.Stop(); return the Failure with the last error.
SelectDone(n) ==
    /\ pc[n] = "select"
    /\ CtxErr
    /\ pc' = [pc EXCEPT ![n] = "returned"]
    /\ timer' = [timer EXCEPT ![n] = "stopped"]
    /\ res' = [res EXCEPT ![n] = Failure(Error(err[n]))]
    /\ sawDone' = [sawDone EXCEPT ![n] = "select"]
    /\ UNCHANGED <<calls, err, waits, expiries, late>>
    /\ UNCHANGED <<otherVars, planVars, poolVars, ctxDone, childDone, chanVars, callerVars, cancelledAt>>

\* Variant of SelectTimer that gives up when the retry interval has elapsed: it
\* returns the Failure instead of invoking the worker again.
SelectTimer_GivesUp(n) ==
    /\ pc[n] = "select"
    /\ timer[n] = "fired"
    /\ pc' = [pc EXCEPT ![n] = "returned"]
    /\ res' = [res EXCEPT ![n] = Failure(Error(err[n]))]
    /\ expiries' = [expiries EXCEPT ![n] = @ + 1]
    /\ UNCHANGED <<calls, err, timer, waits, late, sawDone>>
    /\ UNCHANGED <<otherVars, planVars, poolVars, ctxDone, childDone, chanVars, callerVars, cancelledAt>>

\* Variant of SelectTimer that does not wait: the select has a default case,
\* and the worker is invoked again at once, no timer expiry consumed.
SelectTimer_NoWait(n) ==
    /\ pc[n] = "select"
    /\ calls[n] < MaxCalls
    /\ pc' = [pc EXCEPT ![n] = "incall"]
    /\ calls' = [calls EXCEPT ![n] = @ + 1]
    /\ late' = [late EXCEPT ![n] = IF CtxErr THEN @ + 1 ELSE @]
    /\ UNCHANGED <<err, res, waits, sawDone, timer, expiries>>
    /\ UNCHANGED <<otherVars, planVars, poolVars, ctxDone, childDone, chanVars, callerVars, cancelledAt>>

\* select case <-retry.C: retry.Reset(retryInterval); the loop invokes the worker
\* again.  Taken also when ctx.Done() is ready too: select picks either case.
SelectTimer(n) ==
    /\ pc[n] = "select"
    /\ timer[n] = "fired"
    /\ calls[n] < MaxCalls
    /\ pc' = [pc EXCEPT ![n] = "incall"]
    /\ timer' = [timer EXCEPT ![n] = "armed"]
    /\ calls' = [calls EXCEPT ![n] = @ + 1]
    /\ expiries' = [expiries EXCEPT ![n] = @ + 1]
    /\ late' = [late EXCEPT ![n] = IF CtxErr THEN @ + 1 ELSE @]
    /\ UNCHANGED <<err, res, waits, sawDone>>
    /\ UNCHANGED <<otherVars, planVars, poolVars, ctxDone, childDone, chanVars, callerVars, cancelledAt>>

\* The caller's context becomes done from outside: its deadline passes or its
\* cancel function is called by the caller's side.
CtxBecomesDone ==
    /\ ~ctxDone
    /\ ctxDone' = TRUE
    /\ UNCHANGED <<otherVars, planVars, poolVars, childDone, pollVars, chanVars, callerVars, cancelledAt>>

----------------------------------------------------------------------------
\* Specification of a single call of Func

NoneOf(S, v) == [n \in S |-> v]

InitPoll ==
    /\ calls = NoneOf(Names, 0)
    /\ err = NoneOf(Names, NilErr)
    /\ timer = NoneOf(Names, "nil")
    /\ res = NoneOf(Names, NoResult)
    /\ waits = NoneOf(Names, 0)
    /\ expiries = NoneOf(Names, 0)
    /\ late = NoneOf(Names, 0)
    /\ cancelledAt = NoneOf(Names, 0)
    /\ sawDone = NoneOf(Names, "no")
    /\ childDone = FALSE
    /\ results = <<>>
    /\ closed = FALSE
    /\ wg = 0
    /\ out = [n \in {} |-> NoResult]
    /\ ret = NoResult
    /\ recvd = <<>>
    /\ input = <<>>
    /\ inputClosed = FALSE
    /\ fed = {}
    /\ gpc = NoneOf(Routines, "idle")
    /\ gcur = NoneOf(Routines, "")

\* No Await is in use and UntilNoError is not running.
IdleAwait ==
    /\ maxWait = -1
    /\ loopCtx = "none"
    /\ timeoutDone = FALSE

\* Neither PollAll nor PollFirstResult is running.
IdleLocks ==
    /\ mapLock = ""
    /\ cancelClosed = FALSE
    /\ firstClosed = FALSE
    /\ resultsCount = 0

\* No *Error is being rendered.
IdleError ==
    /\ givenErr = NilErr
    /\ givenSince = 0
    /\ errObj = NoError
    /\ errString = <<>>
    /\ unwrapped = NotCalled

\* The operations modelled apart from Func, All and First are not running.
IdleOthers == IdleError /\ IdleAwait /\ IdleLocks

InitFunc ==
    /\ IdleOthers
    /\ op = "Func"
    /\ concurrency = 0
    /\ \E n \in Names : workers = {n}
    /\ succAt \in [Names -> 0 .. MaxCalls]
    /\ blocks \in [Names -> BOOLEAN]
    /\ \A n \in Names \ workers : succAt[n] = 0 /\ ~blocks[n]
    /\ ctxDone \in BOOLEAN
    /\ pc = [n \in Names |-> IF n \in workers THEN "start" ELSE "idle"]
    /\ spc = "none"
    /\ cpc = "none"
    /\ InitPoll

NextFunc ==
    \/ \E n \in workers : FuncEntry(n)
    \/ \E n \in workers : WorkerCancel(n)
    \/ \E n \in workers : WorkerReturn(n)
    \/ \E n \in workers : CheckCtx(n)
    \/ \E n \in workers : TimerExpire(n)
    \/ \E n \in workers : SelectDone(n)
    \/ \E n \in workers : SelectTimer(n)
    \/ CtxBecomesDone

SpecFunc == InitFunc /\ [][NextFunc]_vars

\* Scheduling of one call of Func: a goroutine that can take a step takes it,
\* the retry timer expires when its interval has elapsed, and every worker
\* invocation that is not waiting on ctx.Done() returns.  Nothing forces the
\* context to become done.
FairFunc ==
    \A n \in Names :
        /\ WF_vars(FuncEntry(n))
        /\ WF_vars(WorkerReturn(n))
        /\ WF_vars(CheckCtx(n))
        /\ WF_vars(TimerExpire(n))
        /\ WF_vars(SelectDone(n) \/ SelectTimer(n))

SpecFuncFair == SpecFunc /\ FairFunc

----------------------------------------------------------------------------
\* workerMap: one goroutine per worker, results over a buffered channel

\* The switch of All and First: workerMap when concurrency is 0 or at least
\* len(workers), workerPool otherwise.
UsesWorkerMap == concurrency = 0 \/ concurrency >= Cardinality(workers)

\* Variant of ChanCap: the results channel of workerMap gets the capacity of
\* a pool, not one slot per worker.
ChanCap_PoolSized == Cardinality(Routines)

\* g := len(workers); results := make(chan namedResult, g)
ChanCap == Cardinality(workers)

\* The caller (All or First) calls workerMap: the channel is made, the spawning
\* goroutine is started and the channel is returned to the caller's range loop.
\* (First has derived its cancellable context just before.)
CallWorkerMap ==
    /\ cpc = "init"
    /\ UsesWorkerMap
    /\ cpc' = "range"
    /\ spc' = "spawn"
    /\ UNCHANGED <<results, closed, wg, out, ret, recvd>>
    /\ UNCHANGED <<otherVars, planVars, poolVars, ctxDone, childDone, pollVars, cancelledAt>>

\* The spawning goroutine: wg.Add(g) and one `go func` per registry entry.
Spawn ==
    /\ spc = "spawn"
    /\ wg' = ChanCap
    /\ pc' = [n \in Names |-> IF n \in workers THEN "start" ELSE pc[n]]
    /\ spc' = "wait"
    /\ UNCHANGED <<calls, err, timer, res, waits, expiries, late, sawDone>>
    /\ UNCHANGED <<results, closed>>
    /\ UNCHANGED <<otherVars, planVars, poolVars, ctxDone, childDone, callerVars, cancelledAt>>

\* Worker goroutine: results <- namedResult{name, result}, once Func returned.
\* The send blocks while the channel buffer is full.
Send(n) ==
    /\ UsesWorkerMap
    /\ pc[n] = "returned"
    /\ Len(results) < ChanCap
    /\ ~closed
    /\ results' = Append(results, namedResult(n, res[n]))
    /\ pc' = [pc EXCEPT ![n] = "sent"]
    /\ UNCHANGED <<calls, err, timer, res, waits, expiries, late, sawDone>>
    /\ UNCHANGED <<closed, wg, spc>>
    /\ UNCHANGED <<otherVars, planVars, poolVars, ctxDone, childDone, callerVars, cancelledAt>>

\* Worker goroutine: the deferred wg.Done() as the goroutine function returns.
WgDone(n) ==
    /\ UsesWorkerMap
    /\ pc[n] = "sent"
    /\ wg' = wg - 1
    /\ pc' = [pc EXCEPT ![n] = "exited"]
    /\ UNCHANGED <<calls, err, timer, res, waits, expiries, late, sawDone>>
    /\ UNCHANGED <<results, closed, spc>>
    /\ UNCHANGED <<otherVars, planVars, poolVars, ctxDone, childDone, callerVars, cancelledAt>>

\* Variant of WaitClose that closes the channel without wg.Wait().
WaitClose_NoWait ==
    /\ spc = "wait"
    /\ closed' = TRUE
    /\ spc' = "done"
    /\ UNCHANGED <<results, wg>>
    /\ UNCHANGED <<otherVars, planVars, poolVars, ctxDone, childDone, pollVars, callerVars, cancelledAt>>

\* Variant of WaitClose in which the channel is closed on behalf of the last
\* worker goroutine to finish, so never for an empty registry.
WaitClose_ByLastWorker ==
    /\ spc = "wait"
    /\ wg = 0
    /\ workers # {}
    /\ closed' = TRUE
    /\ spc' = "done"
    /\ UNCHANGED <<results, wg>>
    /\ UNCHANGED <<otherVars, planVars, poolVars, ctxDone, childDone, pollVars, callerVars, cancelledAt>>

\* The spawning goroutine: wg.Wait() returns when the counter is zero; then
\* close(results).
WaitClose ==
    /\ spc = "wait"
    /\ wg = 0
    /\ closed' = TRUE
    /\ spc' = "done"
    /\ UNCHANGED <<results, wg>>
    /\ UNCHANGED <<otherVars, planVars, poolVars, ctxDone, childDone, pollVars, callerVars, cancelledAt>>

----------------------------------------------------------------------------
\* workerPool: `concurrency` goroutines polling the workers one after another

\* The goroutines of the pool: `for i := 0; i < g; i++ { go func() ... }`.
Pool ==
    CHOOSE S \in SUBSET DOMAIN gpc :
        Cardinality(S) = IF concurrency < 0 THEN 0 ELSE concurrency

\* The caller (All or First) calls workerPool: both channels are made with
\* capacity g = concurrency, wg.Add(g), the g pool goroutines and the feeding
\* goroutine are started and the results channel is returned.
CallWorkerPool ==
    /\ cpc = "init"
    /\ ~UsesWorkerMap
    /\ concurrency > 0
    /\ cpc' = "range"
    /\ wg' = concurrency
    /\ gpc' = [g \in DOMAIN gpc |-> IF g \in Pool THEN "recv" ELSE gpc[g]]
    /\ spc' = "feed"
    /\ UNCHANGED <<results, closed, out, ret, recvd>>
    /\ UNCHANGED <<input, inputClosed, fed, gcur>>
    /\ UNCHANGED <<otherVars, planVars, ctxDone, childDone, pollVars, cancelledAt>>

\* The feeding goroutine: input <- namedWorker{name, worker} for the next
\* registry entry (in map order, which is arbitrary).  The send blocks while
\* the buffer of the input channel is full.
Feed(n) ==
    /\ spc = "feed"
    /\ n \in workers \ fed
    /\ Len(input) < concurrency
    /\ input' = Append(input, n)
    /\ fed' = fed \cup {n}
    /\ UNCHANGED <<inputClosed, gpc, gcur>>
    /\ UNCHANGED <<otherVars, planVars, ctxDone, childDone, pollVars, chanVars, callerVars,
                   cancelledAt>>

\* Variant of CloseInput that closes the input channel as soon as something
\* was fed, without waiting for the whole registry.
CloseInput_Early ==
    /\ spc = "feed"
    /\ fed # {}
    /\ inputClosed' = TRUE
    /\ spc' = "poolwait"
    /\ UNCHANGED <<results, closed, wg>>
    /\ UNCHANGED <<input, fed, gpc, gcur>>
    /\ UNCHANGED <<otherVars, planVars, ctxDone, childDone, pollVars, callerVars,
                   cancelledAt>>

\* Variant of CloseInput without the close(input): the feeding goroutine
\* goes straight to wg.Wait().
CloseInput_Forgotten ==
    /\ spc = "feed"
    /\ fed = workers
    /\ spc' = "poolwait"
    /\ UNCHANGED <<results, closed, wg>>
    /\ UNCHANGED <<input, inputClosed, fed, gpc, gcur>>
    /\ UNCHANGED <<otherVars, planVars, ctxDone, childDone, pollVars, callerVars,
                   cancelledAt>>

\* The feeding goroutine after its loop: close(input).
CloseInput ==
    /\ spc = "feed"
    /\ fed = workers
    /\ inputClosed' = TRUE
    /\ spc' = "poolwait"
    /\ UNCHANGED <<results, closed, wg>>
    /\ UNCHANGED <<input, fed, gpc, gcur>>
    /\ UNCHANGED <<otherVars, planVars, ctxDone, childDone, pollVars, callerVars,
                   cancelledAt>>

\* The feeding goroutine: wg.Wait(); close(results).
PoolWaitClose ==
    /\ spc = "poolwait"
    /\ wg = 0
    /\ closed' = TRUE
    /\ spc' = "done"
    /\ UNCHANGED <<results, wg>>
    /\ UNCHANGED <<otherVars, planVars, poolVars, ctxDone, childDone, pollVars, callerVars,
                   cancelledAt>>

\* Variant of PoolRecv in which a pool goroutine takes the next worker without
\* waiting for the poll it is running to return.
PoolRecv_NoWait(g) ==
    /\ gpc[g] \in {"recv", "run"}
    /\ input # <<>>
    /\ gcur' = [gcur EXCEPT ![g] = Head(input)]
    /\ input' = Tail(input)
    /\ gpc' = [gpc EXCEPT ![g] = "run"]
    /\ pc' = [pc EXCEPT ![Head(input)] = "start"]
    /\ UNCHANGED <<calls, err, timer, res, waits, expiries, late, sawDone>>
    /\ UNCHANGED <<inputClosed, fed>>
    /\ UNCHANGED <<otherVars, planVars, ctxDone, childDone, chanVars, callerVars,
                   cancelledAt>>

\* Pool goroutine g: `for nw := range input` receives the next worker and
\* calls Func for it.
PoolRecv(g) ==
    /\ gpc[g] = "recv"
    /\ input # <<>>
    /\ gcur' = [gcur EXCEPT ![g] = Head(input)]
    /\ input' = Tail(input)
    /\ gpc' = [gpc EXCEPT ![g] = "run"]
    /\ pc' = [pc EXCEPT ![Head(input)] = "start"]
    /\ UNCHANGED <<calls, err, timer, res, waits, expiries, late, sawDone>>
    /\ UNCHANGED <<inputClosed, fed>>
    /\ UNCHANGED <<otherVars, planVars, ctxDone, childDone, chanVars, callerVars,
                   cancelledAt>>

\* Pool goroutine g: results <- namedResult{nw.name, result} once Func has
\* returned, then back to the range over input.  The send blocks while the
\* buffer of the results channel is full.
PoolSend(g) ==
    /\ gpc[g] = "run"
    /\ pc[gcur[g]] = "returned"
    /\ Len(results) < concurrency
    /\ ~closed
    /\ results' = Append(results, namedResult(gcur[g], res[gcur[g]]))
    /\ pc' = [pc EXCEPT ![gcur[g]] = "exited"]
    /\ gpc' = [gpc EXCEPT ![g] = "recv"]
    /\ UNCHANGED <<calls, err, timer, res, waits, expiries, late, sawDone>>
    /\ UNCHANGED <<closed, wg, spc>>
    /\ UNCHANGED <<input, inputClosed, fed, gcur>>
    /\ UNCHANGED <<otherVars, planVars, ctxDone, childDone, callerVars, cancelledAt>>

\* Pool goroutine g: the range over input ends when the channel is closed and
\* drained; the deferred wg.Done() runs.
PoolExit(g) ==
    /\ gpc[g] = "recv"
    /\ input = <<>>
    /\ inputClosed
    /\ gpc' = [gpc EXCEPT ![g] = "exited"]
    /\ wg' = wg - 1
    /\ UNCHANGED <<results, closed, spc>>
    /\ UNCHANGED <<input, inputClosed, fed, gcur>>
    /\ UNCHANGED <<otherVars, planVars, ctxDone, childDone, pollVars, callerVars,
                   cancelledAt>>

----------------------------------------------------------------------------
\* All: collect every worker's Result into a map

\* for result := range workerMap(...) { results[result.name] = result.Result }
AllRecv ==
    /\ op = "All"
    /\ cpc = "range"
    /\ results # <<>>
    /\ LET r == Head(results) IN
         out' = [m \in DOMAIN out \cup {r.name} |->
                    IF m = r.name THEN r.Result ELSE out[m]]
    /\ results' = Tail(results)
    /\ UNCHANGED <<closed, wg, spc, cpc, ret, recvd>>
    /\ UNCHANGED <<otherVars, planVars, poolVars, ctxDone, childDone, pollVars, cancelledAt>>

\* The range loop ends when the channel is closed and drained: return results.
AllReturn ==
    /\ op = "All"
    /\ cpc = "range"
    /\ results = <<>>
    /\ closed
    /\ cpc' = "returned"
    /\ UNCHANGED <<out, ret, recvd>>
    /\ UNCHANGED <<otherVars, planVars, poolVars, ctxDone, childDone, pollVars, chanVars, cancelledAt>>

----------------------------------------------------------------------------
\* First: return the first success

\* Variant of FirstRecv without the `continue`: whatever Result arrives first
\* is returned.
FirstRecv_ReturnsAny ==
    /\ op = "First"
    /\ cpc = "range"
    /\ results # <<>>
    /\ LET r == Head(results) IN
         /\ recvd' = Append(recvd, r)
         /\ ret' = r.Result
         /\ cpc' = "defer"
    /\ results' = Tail(results)
    /\ UNCHANGED <<closed, wg, spc, out>>
    /\ UNCHANGED <<otherVars, planVars, poolVars, ctxDone, childDone, pollVars, cancelledAt>>

\* for result := range workerMap(...): a Result with Err != nil is skipped
\* (continue), the first one with Err == nil is returned.
FirstRecv ==
    /\ op = "First"
    /\ cpc = "range"
    /\ results # <<>>
    /\ LET r == Head(results) IN
         /\ recvd' = Append(recvd, r)
         /\ IF r.Result.Err # NoError
            THEN UNCHANGED <<cpc, ret>>
            ELSE /\ ret' = r.Result
                 /\ cpc' = "defer"
    /\ results' = Tail(results)
    /\ UNCHANGED <<closed, wg, spc, out>>
    /\ UNCHANGED <<otherVars, planVars, poolVars, ctxDone, childDone, pollVars, cancelledAt>>

\* Variant of FirstAllFailed that gives up as soon as the channel is empty,
\* closed or not.
FirstAllFailed_NoClosedCheck ==
    /\ op = "First"
    /\ cpc = "range"
    /\ results = <<>>
    /\ ret' = Failure(Error(AllFailed))
    /\ cpc' = "defer"
    /\ UNCHANGED <<out, recvd>>
    /\ UNCHANGED <<otherVars, planVars, poolVars, ctxDone, childDone, pollVars, chanVars, cancelledAt>>

\* Variant of FirstAllFailed that also selects on the caller's ctx.Done() and
\* returns a Failure as soon as the context is done.
FirstAllFailed_OnCtxDone ==
    /\ op = "First"
    /\ cpc = "range"
    /\ \/ results = <<>> /\ closed
       \/ ctxDone
    /\ ret' = Failure(Error(AllFailed))
    /\ cpc' = "defer"
    /\ UNCHANGED <<out, recvd>>
    /\ UNCHANGED <<otherVars, planVars, poolVars, ctxDone, childDone, pollVars, chanVars, cancelledAt>>

\* The range loop ends (channel closed and drained) without a success:
\* return Result{Err: &Error{errWork: errors.New("all worker functions failed")}}
FirstAllFailed ==
    /\ op = "First"
    /\ cpc = "range"
    /\ results = <<>>
    /\ closed
    /\ ret' = Failure(Error(AllFailed))
    /\ cpc' = "defer"
    /\ UNCHANGED <<out, recvd>>
    /\ UNCHANGED <<otherVars, planVars, poolVars, ctxDone, childDone, pollVars, chanVars, cancelledAt>>

\* Variant of FirstDeferCancel that cancels the context it was given instead
\* of the one it derived.
FirstDeferCancel_CancelsParent ==
    /\ op = "First"
    /\ cpc = "defer"
    /\ ctxDone' = TRUE
    /\ cpc' = "returned"
    /\ UNCHANGED <<out, ret, recvd>>
    /\ UNCHANGED <<otherVars, planVars, poolVars, childDone, pollVars, chanVars, cancelledAt>>

\* Variant of FirstDeferCancel that returns without calling cancel().
FirstDeferCancel_NoCancel ==
    /\ op = "First"
    /\ cpc = "defer"
    /\ cpc' = "returned"
    /\ UNCHANGED <<out, ret, recvd>>
    /\ UNCHANGED <<otherVars, planVars, poolVars, ctxDone, childDone, pollVars, chanVars, cancelledAt>>

\* defer cancel(): the derived context is cancelled as First returns.
FirstDeferCancel ==
    /\ op = "First"
    /\ cpc = "defer"
    /\ childDone' = TRUE
    /\ cpc' = "returned"
    /\ UNCHANGED <<out, ret, recvd>>
    /\ UNCHANGED <<otherVars, planVars, poolVars, ctxDone, pollVars, chanVars, cancelledAt>>

----------------------------------------------------------------------------
\* Specifications of All and of First (one goroutine per worker)

\* A registry, the behaviour of its workers and the state of the caller's
\* context as All or First is called.
InitRegistry ==
    /\ IdleOthers
    /\ workers \in SUBSET Names
    /\ succAt \in [Names -> 0 .. MaxCalls]
    /\ blocks \in [Names -> BOOLEAN]
    /\ \A n \in Names \ workers : succAt[n] = 0 /\ ~blocks[n]
    /\ ctxDone \in BOOLEAN
    /\ pc = NoneOf(Names, "idle")
    /\ spc = "none"
    /\ cpc = "init"
    /\ InitPoll

InitGroup == concurrency = 0 /\ InitRegistry

InitAll == op = "All" /\ InitGroup

InitFirst == op = "First" /\ InitGroup

NextPoll ==
    \/ \E n \in workers : FuncEntry(n)
    \/ \E n \in workers : WorkerCancel(n)
    \/ \E n \in workers : WorkerReturn(n)
    \/ \E n \in workers : CheckCtx(n)
    \/ \E n \in workers : TimerExpire(n)
    \/ \E n \in workers : SelectDone(n)
    \/ \E n \in workers : SelectTimer(n)
    \/ \E n \in workers : Send(n)
    \/ \E n \in workers : WgDone(n)
    \/ CtxBecomesDone
    \/ CallWorkerMap
    \/ Spawn
    \/ WaitClose

NextAll ==
    \/ NextPoll
    \/ AllRecv
    \/ AllReturn

NextFirst ==
    \/ NextPoll
    \/ FirstRecv
    \/ FirstAllFailed
    \/ FirstDeferCancel

SpecAll == InitAll /\ [][NextAll]_vars

SpecFirst == InitFirst /\ [][NextFirst]_vars

\* All and First with any concurrency argument from 0 up to the size of the
\* largest pool: the call fans out through workerMap or through workerPool,
\* as the switch of All / First decides.
InitConc ==
    /\ op \in {"All", "First"}
    /\ concurrency \in 0 .. Cardinality(Routines)
    /\ InitRegistry

NextPool ==
    \/ CallWorkerPool
    \/ \E n \in workers : Feed(n)
    \/ CloseInput
    \/ PoolWaitClose
    \/ \E g \in Pool : PoolRecv(g)
    \/ \E g \in Pool : PoolSend(g)
    \/ \E g \in Pool : PoolExit(g)

NextConc ==
    \/ NextPoll
    \/ NextPool
    \/ AllRecv
    \/ AllReturn
    \/ FirstRecv
    \/ FirstAllFailed
    \/ FirstDeferCancel

SpecConc == InitConc /\ [][NextConc]_vars

\* First under the scheduling the Go runtime gives: every goroutine that can
\* take a step eventually takes one, a running timer eventually expires, and a
\* worker invocation that is not waiting on ctx.Done() eventually returns.
\* Nothing forces the caller's context to become done or a worker to call
\* cancel.
FairFirst ==
    /\ \A n \in Names :
          /\ WF_vars(FuncEntry(n))
          /\ WF_vars(WorkerReturn(n))
          /\ WF_vars(CheckCtx(n))
          /\ WF_vars(TimerExpire(n))
          /\ WF_vars(SelectDone(n) \/ SelectTimer(n))
          /\ WF_vars(Send(n))
          /\ WF_vars(WgDone(n))
    /\ WF_vars(CallWorkerMap)
    /\ WF_vars(Spawn)
    /\ WF_vars(WaitClose)
    /\ WF_vars(FirstRecv)
    /\ WF_vars(FirstAllFailed)
    /\ WF_vars(FirstDeferCancel)

SpecFirstFair == SpecFirst /\ FairFirst

----------------------------------------------------------------------------
\* The methods of *Error

\* An *Error is constructed from the worker error and the elapsed time, as
\* Func and First do.
NewError ==
    /\ op = "Error"
    /\ errObj = NoError
    /\ errObj' = ErrorAt(givenErr, givenSince)
    /\ UNCHANGED <<givenErr, givenSince, errString, unwrapped>>
    /\ UNCHANGED <<awaitVars, lockVars, firstVars>>
    /\ UNCHANGED <<planVars, poolVars, ctxDone, childDone, pollVars, chanVars,
                   callerVars, cancelledAt>>

\* err.Error()
CallError ==
    /\ op = "Error"
    /\ errObj # NoError
    /\ errString' = ErrorString(errObj)
    /\ UNCHANGED <<givenErr, givenSince, errObj, unwrapped>>
    /\ UNCHANGED <<awaitVars, lockVars, firstVars>>
    /\ UNCHANGED <<planVars, poolVars, ctxDone, childDone, pollVars, chanVars,
                   callerVars, cancelledAt>>

\* err.Unwrap()
CallUnwrap ==
    /\ op = "Error"
    /\ errObj # NoError
    /\ unwrapped' = Unwrap(errObj)
    /\ UNCHANGED <<givenErr, givenSince, errObj, errString>>
    /\ UNCHANGED <<awaitVars, lockVars, firstVars>>
    /\ UNCHANGED <<planVars, poolVars, ctxDone, childDone, pollVars, chanVars,
                   callerVars, cancelledAt>>

\* No registry is being polled.
IdleGroup ==
    /\ concurrency = 0
    /\ workers = {}
    /\ succAt = NoneOf(Names, 0)
    /\ blocks = NoneOf(Names, FALSE)
    /\ ctxDone = FALSE
    /\ pc = NoneOf(Names, "idle")
    /\ spc = "none"
    /\ cpc = "none"
    /\ InitPoll

\* The errors an *Error is built around: none, a worker's error, or "all
\* worker functions failed".
Underlying ==
    {NilErr, AllFailed} \cup {WorkErr(n, k) : n \in Names, k \in 1 .. MaxCalls}

InitError ==
    /\ op = "Error"
    /\ givenErr \in Underlying
    /\ givenSince \in 0 .. MaxSince
    /\ errObj = NoError
    /\ errString = <<>>
    /\ unwrapped = NotCalled
    /\ IdleGroup
    /\ IdleAwait
    /\ IdleLocks

NextError ==
    \/ NewError
    \/ CallError
    \/ CallUnwrap

SpecError == InitError /\ [][NextError]_vars

----------------------------------------------------------------------------
\* UntilNoError and the Await DSL built on it

\* ctx.Err() != nil for the context UntilNoError was given.
LoopDone == IF loopCtx = "timeout" THEN timeoutDone ELSE ctxDone

\* Variant of UntilEntry without the check of the context before the loop.
UntilEntry_NoEntryCheck(n) ==
    /\ pc[n] = "start"
    /\ pc' = [pc EXCEPT ![n] = "incall"]
    /\ calls' = [calls EXCEPT ![n] = 1]
    /\ late' = [late EXCEPT ![n] = IF ctxDone THEN @ + 1 ELSE @]
    /\ UNCHANGED <<err, timer, res, waits, expiries, sawDone>>
    /\ UNCHANGED <<otherVars, planVars, poolVars, ctxDone, childDone, chanVars,
                   callerVars, cancelledAt>>

\* UntilNoError is entered: if ctx.Err() != nil it returns the TimeoutError
\* with ErrPoll nil; otherwise the loop invokes poll for the first time.
UntilEntry(n) ==
    /\ pc[n] = "start"
    /\ IF LoopDone
       THEN /\ pc' = [pc EXCEPT ![n] = "returned"]
            /\ res' = [res EXCEPT
                         ![n] = TimeoutError(CtxError(loopCtx), NilErr)]
            /\ sawDone' = [sawDone EXCEPT ![n] = "entry"]
            /\ UNCHANGED <<calls, late>>
       ELSE /\ pc' = [pc EXCEPT ![n] = "incall"]
            /\ calls' = [calls EXCEPT ![n] = 1]
            /\ late' = [late EXCEPT ![n] = IF ctxDone THEN @ + 1 ELSE @]
            /\ UNCHANGED <<res, sawDone>>
    /\ UNCHANGED <<err, timer, waits, expiries>>
    /\ UNCHANGED <<otherVars, planVars, poolVars, ctxDone, childDone, chanVars,
                   callerVars, cancelledAt>>

\* The error of a failed invocation of poll: the error poll returned, or,
\* behind the adapter of UntilTrue, errors.New("poll failed").
PollFailed == [kind |-> "pollfailed", w |-> "", k |-> 0]
PollErr(n) ==
    IF op = "Await.UntilTrue" THEN PollFailed ELSE WorkErr(n, calls[n])

\* Variant of PollReturn that keeps the error of the first failed invocation.
PollReturn_KeepFirstErr(n) ==
    /\ pc[n] = "incall"
    /\ blocks[n] => ctxDone
    /\ IF calls[n] = succAt[n]
       THEN /\ pc' = [pc EXCEPT ![n] = "returned"]
            /\ res' = [res EXCEPT ![n] = NilTimeout]
            /\ UNCHANGED err
       ELSE /\ pc' = [pc EXCEPT ![n] = "failed"]
            /\ err' = [err EXCEPT ![n] = IF @ = NilErr THEN PollErr(n) ELSE @]
            /\ UNCHANGED res
    /\ UNCHANGED <<calls, timer, waits, expiries, late, sawDone>>
    /\ UNCHANGED <<otherVars, planVars, poolVars, ctxDone, childDone, chanVars,
                   callerVars, cancelledAt>>

\* err := poll(ctx) returns: nil ends UntilNoError with nil, an error is kept
\* in err.  A poll function that waits on <-ctx.Done() waits on the context it
\* is passed, which is always the caller's.
PollReturn(n) ==
    /\ pc[n] = "incall"
    /\ blocks[n] => ctxDone
    /\ IF calls[n] = succAt[n]
       THEN /\ pc' = [pc EXCEPT ![n] = "returned"]
            /\ res' = [res EXCEPT ![n] = NilTimeout]
            /\ UNCHANGED err
       ELSE /\ pc' = [pc EXCEPT ![n] = "failed"]
            /\ err' = [err EXCEPT ![n] = PollErr(n)]
            /\ UNCHANGED res
    /\ UNCHANGED <<calls, timer, waits, expiries, late, sawDone>>
    /\ UNCHANGED <<otherVars, planVars, poolVars, ctxDone, childDone, chanVars,
                   callerVars, cancelledAt>>

\* After a failed invocation: if ctx.Err() != nil return the TimeoutError;
\* otherwise create the retry timer if there is none and enter the select.
UntilCheck(n) ==
    /\ pc[n] = "failed"
    /\ IF LoopDone
       THEN /\ pc' = [pc EXCEPT ![n] = "returned"]
            /\ res' = [res EXCEPT
                         ![n] = TimeoutError(CtxError(loopCtx), err[n])]
            /\ sawDone' = [sawDone EXCEPT ![n] = "check"]
            /\ UNCHANGED <<timer, waits>>
       ELSE /\ pc' = [pc EXCEPT ![n] = "select"]
            /\ timer' = [timer EXCEPT ![n] = IF @ = "nil" THEN "armed" ELSE @]
            /\ waits' = [waits EXCEPT ![n] = @ + 1]
            /\ UNCHANGED <<res, sawDone>>
    /\ UNCHANGED <<calls, err, expiries, late>>
    /\ UNCHANGED <<otherVars, planVars, poolVars, ctxDone, childDone, chanVars,
                   callerVars, cancelledAt>>

\* select case <-ctx.Done(): retry.Stop(); return the TimeoutError.
UntilSelectDone(n) ==
    /\ pc[n] = "select"
    /\ LoopDone
    /\ pc' = [pc EXCEPT ![n] = "returned"]
    /\ timer' = [timer EXCEPT ![n] = "stopped"]
    /\ res' = [res EXCEPT ![n] = TimeoutError(CtxError(loopCtx), err[n])]
    /\ sawDone' = [sawDone EXCEPT ![n] = "select"]
    /\ UNCHANGED <<calls, err, waits, expiries, late>>
    /\ UNCHANGED <<otherVars, planVars, poolVars, ctxDone, childDone, chanVars,
                   callerVars, cancelledAt>>

\* select case <-retry.C: retry.Reset(retryInterval); poll is invoked again.
UntilSelectTimer(n) ==
    /\ pc[n] = "select"
    /\ timer[n] = "fired"
    /\ calls[n] < MaxCalls
    /\ pc' = [pc EXCEPT ![n] = "incall"]
    /\ timer' = [timer EXCEPT ![n] = "armed"]
    /\ calls' = [calls EXCEPT ![n] = @ + 1]
    /\ expiries' = [expiries EXCEPT ![n] = @ + 1]
    /\ late' = [late EXCEPT ![n] = IF ctxDone THEN @ + 1 ELSE @]
    /\ UNCHANGED <<err, res, waits, sawDone>>
    /\ UNCHANGED <<otherVars, planVars, poolVars, ctxDone, childDone, chanVars,
                   callerVars, cancelledAt>>

\* One call of UntilNoError(ctx, retryInterval, poll).
InitUntil ==
    /\ op = "UntilNoError"
    /\ concurrency = 0
    /\ \E n \in Names : workers = {n}
    /\ succAt \in [Names -> 0 .. MaxCalls]
    /\ blocks \in [Names -> BOOLEAN]
    /\ \A n \in Names \ workers : succAt[n] = 0 /\ ~blocks[n]
    /\ ctxDone \in BOOLEAN
    /\ pc = [n \in Names |-> IF n \in workers THEN "start" ELSE "idle"]
    /\ spc = "none"
    /\ cpc = "none"
    /\ InitPoll
    /\ IdleError
    /\ IdleLocks
    /\ maxWait = -1
    /\ loopCtx = "ctx"
    /\ timeoutDone = FALSE

NextUntilLoop ==
    \/ \E n \in workers : UntilEntry(n)
    \/ \E n \in workers : WorkerCancel(n)
    \/ \E n \in workers : PollReturn(n)
    \/ \E n \in workers : UntilCheck(n)
    \/ \E n \in workers : TimerExpire(n)
    \/ \E n \in workers : UntilSelectDone(n)
    \/ \E n \in workers : UntilSelectTimer(n)
    \/ CtxBecomesDone

SpecUntil == InitUntil /\ [][NextUntilLoop]_vars

\* Await.UntilNoError / Await.UntilTrue begin: createTimeoutContext returns
\* the Await's own context when maxWait < 0, and otherwise
\* context.WithTimeout(context.Background(), maxWait), which is done at once
\* when maxWait is 0; UntilNoError is then called with that context (UntilTrue
\* calls it too, with its adapter around poll).
AwaitCall ==
    /\ cpc = "init"
    /\ cpc' = "polling"
    /\ IF maxWait < 0
       THEN loopCtx' = "ctx" /\ timeoutDone' = timeoutDone
       ELSE loopCtx' = "timeout" /\ timeoutDone' = (maxWait = 0)
    /\ pc' = [n \in Names |-> IF n \in workers THEN "start" ELSE pc[n]]
    /\ UNCHANGED <<calls, err, timer, res, waits, expiries, late, sawDone>>
    /\ UNCHANGED <<out, ret, recvd>>
    /\ UNCHANGED <<errorVars, lockVars, firstVars, maxWait>>
    /\ UNCHANGED <<planVars, poolVars, ctxDone, childDone, chanVars, cancelledAt>>

\* The deadline of the context made by context.WithTimeout passes.
TimeoutExpires ==
    /\ cpc = "polling"
    /\ loopCtx = "timeout"
    /\ ~timeoutDone
    /\ timeoutDone' = TRUE
    /\ UNCHANGED <<errorVars, lockVars, firstVars, maxWait, loopCtx>>
    /\ UNCHANGED <<planVars, poolVars, ctxDone, childDone, pollVars, chanVars,
                   callerVars, cancelledAt>>

\* UntilNoError has returned: the deferred cancel() runs (it cancels the
\* timeout context; for the Await's own context it is func() {}) and the
\* error is returned to the caller.
AwaitReturn ==
    /\ cpc = "polling"
    /\ \E n \in workers : pc[n] = "returned"
    /\ cpc' = "returned"
    /\ timeoutDone' = IF loopCtx = "timeout" THEN TRUE ELSE timeoutDone
    /\ UNCHANGED <<out, ret, recvd>>
    /\ UNCHANGED <<errorVars, lockVars, firstVars, maxWait, loopCtx>>
    /\ UNCHANGED <<planVars, poolVars, ctxDone, childDone, pollVars, chanVars,
                   cancelledAt>>

\* An Await made by WithContext(ctx), with or without a later AtMost(d) (d
\* zero or positive; a negative d is as none) and RetryingEvery(i), on which
\* UntilNoError or UntilTrue is called.
InitAwait ==
    /\ op \in {"Await.UntilNoError", "Await.UntilTrue"}
    /\ maxWait \in {0 - 1, 0, 1}
    /\ loopCtx = "none"
    /\ timeoutDone = FALSE
    /\ concurrency = 0
    /\ \E n \in Names : workers = {n}
    /\ succAt \in [Names -> 0 .. MaxCalls]
    /\ blocks \in [Names -> BOOLEAN]
    /\ \A n \in Names \ workers : succAt[n] = 0 /\ ~blocks[n]
    /\ ctxDone \in BOOLEAN
    /\ pc = NoneOf(Names, "idle")
    /\ spc = "none"
    /\ cpc = "init"
    /\ InitPoll
    /\ IdleError
    /\ IdleLocks

NextAwait ==
    \/ NextUntilLoop
    \/ AwaitCall
    \/ TimeoutExpires
    \/ AwaitReturn

SpecAwait == InitAwait /\ [][NextAwait]_vars

----------------------------------------------------------------------------
\* goawait.Poll (the variant returning an error) and PollAll built on it

\* Poll is entered: there is no check of the context before the loop, the
\* first invocation of poll begins whatever the state of the context.
PollEntry(n) ==
    /\ pc[n] = "start"
    /\ pc' = [pc EXCEPT ![n] = "incall"]
    /\ calls' = [calls EXCEPT ![n] = 1]
    /\ late' = [late EXCEPT ![n] = IF CtxErr THEN @ + 1 ELSE @]
    /\ UNCHANGED <<res, sawDone, err, timer, waits, expiries>>
    /\ UNCHANGED <<otherVars, planVars, poolVars, ctxDone, childDone, chanVars,
                   callerVars, cancelledAt>>

\* The rest of Poll's loop is, statement for statement, the loop of Func:
\* err := poll(ctx) and the return of nil; the check of ctx.Err(); the select
\* on ctx.Done() and on the retry timer.  Poll returns the error only: the
\* Err of the Result kept in res.
PollInvoked(n) == WorkerReturn(n)
PollCheckCtx(n) == CheckCtx(n)
PollSelectDone(n) == SelectDone(n)
PollSelectTimer(n) == SelectTimer(n)

\* PollAll: wg.Add(g) and one goroutine per poll function.
PollAllCall ==
    /\ op = "PollAll"
    /\ cpc = "init"
    /\ cpc' = "wait"
    /\ wg' = Cardinality(workers)
    /\ pc' = [n \in Names |-> IF n \in workers THEN "start" ELSE pc[n]]
    /\ UNCHANGED <<calls, err, timer, res, waits, expiries, late, sawDone>>
    /\ UNCHANGED <<results, closed, spc, out, ret, recvd>>
    /\ UNCHANGED <<otherVars, planVars, poolVars, ctxDone, childDone,
                   cancelledAt>>

\* Goroutine of poll n: Poll returned nil; the deferred wg.Done() runs.
GoSuccess(n) ==
    /\ op = "PollAll"
    /\ pc[n] = "returned"
    /\ res[n].Err = NoError
    /\ pc' = [pc EXCEPT ![n] = "exited"]
    /\ wg' = wg - 1
    /\ UNCHANGED <<calls, err, timer, res, waits, expiries, late, sawDone>>
    /\ UNCHANGED <<results, closed, spc>>
    /\ UNCHANGED <<otherVars, planVars, poolVars, ctxDone, childDone,
                   callerVars, cancelledAt>>

\* Goroutine of poll n: Poll returned an error; mapLock.Lock().
ErrsLock(n) ==
    /\ op = "PollAll"
    /\ pc[n] = "returned"
    /\ res[n].Err # NoError
    /\ mapLock = ""
    /\ mapLock' = n
    /\ pc' = [pc EXCEPT ![n] = "locked"]
    /\ UNCHANGED <<calls, err, timer, res, waits, expiries, late, sawDone>>
    /\ UNCHANGED <<errorVars, awaitVars, firstVars>>
    /\ UNCHANGED <<planVars, poolVars, ctxDone, childDone, chanVars,
                   callerVars, cancelledAt>>

\* Goroutine of poll n: errs[name] = err.(*Error)
ErrsWrite(n) ==
    /\ op = "PollAll"
    /\ pc[n] = "locked"
    /\ out' = [m \in DOMAIN out \cup {n} |->
                 IF m = n THEN res[n].Err ELSE out[m]]
    /\ pc' = [pc EXCEPT ![n] = "written"]
    /\ UNCHANGED <<calls, err, timer, res, waits, expiries, late, sawDone>>
    /\ UNCHANGED <<cpc, ret, recvd>>
    /\ UNCHANGED <<otherVars, planVars, poolVars, ctxDone, childDone, chanVars,
                   cancelledAt>>

\* Goroutine of poll n: mapLock.Unlock(), then the deferred wg.Done().
ErrsUnlock(n) ==
    /\ op = "PollAll"
    /\ pc[n] = "written"
    /\ mapLock' = ""
    /\ pc' = [pc EXCEPT ![n] = "exited"]
    /\ wg' = wg - 1
    /\ UNCHANGED <<calls, err, timer, res, waits, expiries, late, sawDone>>
    /\ UNCHANGED <<results, closed, spc>>
    /\ UNCHANGED <<errorVars, awaitVars, firstVars>>
    /\ UNCHANGED <<planVars, poolVars, ctxDone, childDone, callerVars,
                   cancelledAt>>

\* Variant of PollAllReturn that returns without wg.Wait().
PollAllReturn_NoWait ==
    /\ op = "PollAll"
    /\ cpc = "wait"
    /\ cpc' = "returned"
    /\ UNCHANGED <<out, ret, recvd>>
    /\ UNCHANGED <<otherVars, planVars, poolVars, ctxDone, childDone, pollVars,
                   chanVars, cancelledAt>>

\* PollAll: wg.Wait() returns when the counter is zero; then errs is returned
\* if it has an entry, and nil otherwise.
PollAllReturn ==
    /\ op = "PollAll"
    /\ cpc = "wait"
    /\ wg = 0
    /\ cpc' = "returned"
    /\ UNCHANGED <<out, ret, recvd>>
    /\ UNCHANGED <<otherVars, planVars, poolVars, ctxDone, childDone, pollVars,
                   chanVars, cancelledAt>>

InitPollAll == op = "PollAll" /\ InitGroup

NextPollLoop ==
    \/ \E n \in workers : PollEntry(n)
    \/ \E n \in workers : WorkerCancel(n)
    \/ \E n \in workers : PollInvoked(n)
    \/ \E n \in workers : PollCheckCtx(n)
    \/ \E n \in workers : TimerExpire(n)
    \/ \E n \in workers : PollSelectDone(n)
    \/ \E n \in workers : PollSelectTimer(n)
    \/ CtxBecomesDone

NextPollAll ==
    \/ NextPollLoop
    \/ PollAllCall
    \/ \E n \in workers : GoSuccess(n)
    \/ \E n \in workers : ErrsLock(n)
    \/ \E n \in workers : ErrsWrite(n)
    \/ \E n \in workers : ErrsUnlock(n)
    \/ PollAllReturn

SpecPollAll == InitPollAll /\ [][NextPollAll]_vars

----------------------------------------------------------------------------
\* Properties of Func (checked under SpecFunc)

\* Func has returned for worker n.
Returned(n) == pc[n] \in {"returned", "sent", "exited"}

\* C1. Success short-circuit: a worker that first succeeds on invocation N is
\* never invoked more than N times; a success returned by Func carries the value
\* of invocation N, after exactly N invocations, N - 1 retry waits and N - 1
\* consumed timer expiries (none after the success); and while the context is
\* not done the only way Func returns is with that success.
C1_SuccessShortCircuit ==
    \A n \in workers :
        /\ succAt[n] > 0 => calls[n] <= succAt[n]
        /\ (Returned(n) /\ res[n].Err = NoError) =>
              /\ succAt[n] > 0
              /\ res[n] = Success(WorkVal(n, succAt[n]))
              /\ calls[n] = succAt[n]
              /\ waits[n] = succAt[n] - 1
              /\ expiries[n] = succAt[n] - 1
        /\ (Returned(n) /\ ~CtxErr) => res[n].Err = NoError

\* Func returned a success on the second invocation, after one retry wait, the
\* context never done.
C1_Witness ==
    \E n \in workers :
        /\ pc[n] = "returned"
        /\ ~CtxErr
        /\ succAt[n] = 2
        /\ calls[n] = 2
        /\ waits[n] = 1
        /\ res[n] = Success(WorkVal(n, 2))

\* C2. Fast-fail: a step that takes Func from its entry with the context already
\* done returns at once, with no worker invocation, a Failure whose *Error
\* unwraps to nil, whatever the worker would have returned.
C2_FastFail ==
    [][\A n \in workers :
          (pc[n] = "start" /\ CtxErr /\ pc'[n] # "start") =>
              /\ pc'[n] = "returned"
              /\ calls'[n] = 0
              /\ res'[n].Err.type = "Error"
              /\ Unwrap(res'[n].Err) = NilErr
              /\ res'[n].Value = NilVal]_vars

\* Func was called with a done context, for a worker that never succeeds, and
\* has returned.
C2_Witness ==
    \E n \in workers :
        /\ pc[n] = "returned"
        /\ sawDone[n] = "entry"
        /\ succAt[n] = 0
        /\ calls[n] = 0
        /\ Unwrap(res[n].Err) = NilErr

\* C3. Timeout relays the last error: a Failure returned after at least one
\* invocation unwraps to the error of the last completed invocation.
C3_TimeoutRelaysLastError ==
    \A n \in workers :
        (Returned(n) /\ res[n].Err # NoError /\ calls[n] > 0) =>
            /\ res[n].Err.type = "Error"
            /\ Unwrap(res[n].Err) = WorkErr(n, calls[n])

\* The worker failed twice or more and the wait was ended by ctx.Done.
C3_Witness ==
    \E n \in workers :
        /\ pc[n] = "returned"
        /\ sawDone[n] = "select"
        /\ calls[n] >= 2
        /\ Unwrap(res[n].Err) = WorkErr(n, calls[n])

\* C4. No retry after a cancellation signalled mid-flight: when invocation k
\* cancelled the context in its body and returned an error, the loop neither
\* waits for the retry interval nor invokes the worker again, and the Failure
\* it returns carries the error of invocation k.
C4_NoRetryAfterCancel ==
    \A n \in workers :
        (cancelledAt[n] > 0 /\ succAt[n] # cancelledAt[n]) =>
            /\ calls[n] = cancelledAt[n]
            /\ waits[n] = cancelledAt[n] - 1
            /\ pc[n] \in {"incall", "failed", "returned"}
            /\ pc[n] = "returned" =>
                  res[n] = Failure(Error(WorkErr(n, cancelledAt[n])))

\* The second invocation cancelled the context, failed, and Func returned.
C4_Witness ==
    \E n \in workers :
        /\ cancelledAt[n] = 2
        /\ pc[n] = "returned"
        /\ sawDone[n] = "check"
        /\ res[n] = Failure(Error(WorkErr(n, 2)))

----------------------------------------------------------------------------
\* Properties of All (checked under SpecAll)

\* The poll of worker n is still unresolved: Func has not returned.
Unresolved(n) == pc[n] \in {"idle", "start", "incall", "failed", "select"}

\* C5. All never returns partial results: when All has returned, the key set
\* of its map is the registry, no poll is unresolved, and the entry under n is
\* the Result that the poll of worker n produced.
C5_AllNoPartialResults ==
    cpc = "returned" =>
        /\ DOMAIN out = workers
        /\ \A n \in workers :
              /\ ~Unresolved(n)
              /\ pc[n] = "exited"
              /\ out[n] = res[n]
              /\ out[n].Value.w \in {"", n}
              /\ Unwrap(out[n].Err).w \in {"", n}

\* All returned a map with two successes, made by different invocations.
C5_Witness ==
    /\ op = "All"
    /\ cpc = "returned"
    /\ workers = Names
    /\ out["w1"] = Success(WorkVal("w1", 1))
    /\ out["w2"] = Success(WorkVal("w2", 2))

\* C6. Group isolation in All: the context is never changed by a step of a poll
\* loop, of workerMap or of All (only by its owner, or by a worker body calling
\* cancel), and All derives no context of its own; the outcome of worker n is
\* decided by worker n alone: its entry is a success exactly when its own
\* succeeding invocation was reached, and a poll that returned while the
\* context was not done returned a success, whatever the other workers did.
C6_GroupIsolation ==
    /\ [](~childDone)
    /\ [][ctxDone' # ctxDone => UNCHANGED <<pollVars, chanVars, callerVars>>]_vars
    /\ [](\A n \in workers :
            /\ Returned(n) =>
                  (res[n].Err = NoError <=> (succAt[n] > 0 /\ calls[n] = succAt[n]))
            /\ (Returned(n) /\ ~ctxDone) => res[n].Err = NoError
            /\ (cpc = "returned" /\ succAt[n] > 0 /\ calls[n] = succAt[n]) =>
                  out[n] = Success(WorkVal(n, succAt[n])))

\* All returned one success entry beside one Failure entry.
C6_Witness ==
    /\ op = "All"
    /\ cpc = "returned"
    /\ workers = Names
    /\ out["w1"] = Success(WorkVal("w1", 1))
    /\ out["w2"] = Failure(Error(WorkErr("w2", 2)))

----------------------------------------------------------------------------
\* Properties of First (checked under SpecFirst and SpecFirstFair)

\* First has decided what it returns.
FirstDecided == cpc \in {"defer", "returned"}

IsFailure(r) == r.Err # NoError

\* C7. First returns the first success it observes: while it has received only
\* failures it has returned nothing; a success it returns is the last Result
\* it received, everything received before it was a failure, and it is the
\* value of the succeeding invocation of the registered worker that sent it; a
\* failure it received is never what it returns; and its Result, once decided,
\* does not change.
C7_FirstReturnsFirstSuccess ==
    /\ [](/\ ~FirstDecided =>
               /\ ret = NoResult
               /\ \A i \in 1 .. Len(recvd) : IsFailure(recvd[i].Result)
          /\ FirstDecided => ret # NoResult
          /\ (FirstDecided /\ ~IsFailure(ret)) =>
               /\ Len(recvd) > 0
               /\ LET last == recvd[Len(recvd)] IN
                    /\ ret = last.Result
                    /\ last.name \in workers
                    /\ succAt[last.name] > 0
                    /\ ret = Success(WorkVal(last.name, succAt[last.name]))
               /\ \A i \in 1 .. Len(recvd) - 1 : IsFailure(recvd[i].Result)
          /\ (FirstDecided /\ IsFailure(ret)) =>
               \A i \in 1 .. Len(recvd) : recvd[i].Result # ret)
    /\ [][ret # NoResult => ret' = ret]_vars

\* First skipped a failure and then returned a success.
C7_Witness ==
    /\ cpc = "returned"
    /\ Len(recvd) = 2
    /\ IsFailure(recvd[1].Result)
    /\ ret = recvd[2].Result
    /\ ~IsFailure(ret)

\* C8. The aggregate `all worker functions failed` Failure is returned only
\* when the channel is closed and drained: every worker's poll has completed
\* with a Failure, First has received every one of them, and no success was
\* ever produced.
C8_AggregateOnlyAfterAllFailed ==
    (FirstDecided /\ ret = Failure(Error(AllFailed))) =>
        /\ closed
        /\ results = <<>>
        /\ Len(recvd) = Cardinality(workers)
        /\ \A n \in workers :
              /\ pc[n] = "exited"
              /\ IsFailure(res[n])
              /\ \E i \in 1 .. Len(recvd) : recvd[i] = namedResult(n, res[n])

\* Two workers both failed and First returned the aggregate Failure.
C8_Witness ==
    /\ cpc = "returned"
    /\ workers = Names
    /\ ret = Failure(Error(AllFailed))
    /\ \A n \in workers : calls[n] > 0

\* A step in which First decides on a Failure.
FirstReturnsFailure ==
    /\ FirstRecv \/ FirstAllFailed
    /\ cpc' = "defer"
    /\ IsFailure(ret')

FirstWon == cpc = "returned" /\ ~IsFailure(ret)

\* C10. Losers stop polling: the derived context is cancelled by the time
\* First has returned; no poll loop starts more than one invocation once its
\* context is done; and after First returned a winner every poll loop
\* eventually ends (a worker waiting on ctx.Done() is released and its
\* invocation runs to completion), though First did not wait for it.
C10_LosersStopPolling ==
    /\ [](cpc = "returned" => childDone)
    /\ [](\A n \in workers : late[n] <= 1)
    /\ FirstWon ~> (\A n \in workers : pc[n] = "exited")

\* First returned the winner while a losing invocation, which waits on
\* ctx.Done(), was still in progress.
C10_Witness ==
    /\ FirstWon
    /\ childDone
    /\ \E n \in workers : pc[n] = "incall" /\ blocks[n] /\ ret.Value.w # n

----------------------------------------------------------------------------
\* Properties of All and First for any concurrency (checked under SpecConc)

\* A step the caller or the fan-out goroutine can take by itself, without any
\* worker goroutine and whatever the state of the context.
CallerStep ==
    \/ CallWorkerMap
    \/ Spawn
    \/ WaitClose
    \/ AllReturn
    \/ FirstAllFailed
    \/ FirstDeferCancel

\* C11. Empty registry: with an empty worker map no worker is ever invoked;
\* All returns an empty map; First returns a Failure whose underlying error is
\* "all worker functions failed"; and neither blocks: until the call has
\* returned, its next step is always enabled, needing no worker and no change
\* of the context.
C11_EmptyRegistry ==
    workers = {} =>
        /\ \A n \in Names : calls[n] = 0 /\ pc[n] = "idle"
        /\ (op = "All" /\ cpc = "returned") => DOMAIN out = {}
        /\ (op = "First" /\ FirstDecided) =>
              /\ IsFailure(ret)
              /\ Unwrap(ret.Err) = AllFailed
        /\ cpc # "returned" => ENABLED CallerStep

\* First, called with an empty registry and a context that is not done, has
\* returned the "all worker functions failed" Failure.
C11_Witness ==
    /\ op = "First"
    /\ workers = {}
    /\ ~ctxDone
    /\ cpc = "returned"
    /\ ret = Failure(Error(AllFailed))

\* The workers All reports as successes although their invocation waits for
\* <-ctx.Done() before it returns: each of them was inside its invocation at
\* the moment the context became done.
BlockedSuccesses == {n \in DOMAIN out : blocks[n] /\ ~IsFailure(out[n])}

InFunc(n) == pc[n] \in {"start", "incall", "failed", "select"}

\* C13. Concurrency level: when concurrency is 0 or at least the number of
\* workers, every worker has a goroutine of its own once workerMap has spawned
\* them, and no poll waits for another (a poll that has not begun can begin at
\* once), so that all polls can be in progress together; otherwise at most
\* `concurrency` executions of Func are in progress at any moment.
C13_ConcurrencyLevel ==
    /\ (UsesWorkerMap /\ spc \in {"wait", "done"}) =>
          \A n \in workers :
              /\ pc[n] # "idle"
              /\ pc[n] = "start" => ENABLED FuncEntry(n)
    /\ ~UsesWorkerMap =>
          Cardinality({n \in workers : InFunc(n)}) <= concurrency

\* With concurrency 0 both workers of the registry are inside an invocation at
\* the same moment.
C13_Witness ==
    /\ concurrency = 0
    /\ workers = Names
    /\ \A n \in workers : pc[n] = "incall"

\* The values of type *Error: an *Error around any underlying error.
ErrorValues == {Error(u) : u \in Underlying}

\* r is a success carrying a value returned by worker n, or a failure whose
\* Err is an *Error and whose Value is nil.
WellShaped(r, n) ==
    \/ /\ r.Err = NoError
       /\ \E k \in 1 .. calls[n] : r.Value = WorkVal(n, k)
    \/ /\ r.Err \in ErrorValues
       /\ r.Value = NilVal

\* C15. Result shape: every Result that Func has returned, that All has
\* stored or that First returns is a success (Err nil, Value the value the
\* worker returned) or a failure whose Err is an *Error and whose Value is
\* nil; a worker's error never appears as Err itself.
C15_ResultShape ==
    /\ \A n \in workers : Returned(n) => WellShaped(res[n], n)
    /\ \A n \in DOMAIN out : WellShaped(out[n], n)
    /\ (op = "First" /\ FirstDecided) =>
          \/ \E n \in workers : WellShaped(ret, n)
          \/ ret = Failure(Error(AllFailed))

\* All has stored a success beside a failure that wraps the worker's error.
C15_Witness ==
    /\ op = "All"
    /\ cpc = "returned"
    /\ \E n, m \in DOMAIN out :
          /\ out[n].Err = NoError /\ out[n].Value = WorkVal(n, 1)
          /\ out[m].Err = Error(WorkErr(m, 1)) /\ out[m].Value = NilVal

\* What a worker whose outcome depends only on its own invocation count is
\* bound to end as when the context never becomes done: a success if and only
\* if one of its invocations succeeds.
Classification(n) == succAt[n] > 0

\* C16. Idempotent shape: while the context is not done, whatever the
\* interleaving, the map All (concurrency 0) returns classifies every name as
\* the worker's own behaviour dictates, and the Result First returns is a
\* success exactly when some worker of the registry ever succeeds.
C16_SameShapeInEveryInterleaving ==
    (concurrency = 0 /\ ~ctxDone) =>
        /\ (op = "All" /\ cpc = "returned") =>
              \A n \in workers : (out[n].Err = NoError) = Classification(n)
        /\ (op = "First" /\ FirstDecided) =>
              (ret.Err = NoError) = (\E n \in workers : Classification(n))

\* All has returned, the context not done, for two workers that succeed on
\* different invocations.
C16_Witness ==
    /\ op = "All"
    /\ concurrency = 0
    /\ ~ctxDone
    /\ cpc = "returned"
    /\ \E n, m \in workers : succAt[n] = 1 /\ succAt[m] = 2

----------------------------------------------------------------------------
\* Properties of *Error (checked under SpecError)

----------------------------------------------------------------------------
\* Properties of UntilNoError (checked under SpecUntil)

\* C17. UntilNoError: with a context already cancelled poll is never invoked
\* (every first invocation begins while the context is not done) and the
\* TimeoutError returned has ErrPoll nil; whenever a *TimeoutError is
\* returned, the context is done, the error unwraps to ctx.Err() and ErrPoll
\* is the error of the last invocation of poll (nil if there was none).
C17_TimeoutErrorFields ==
    \A n \in workers :
        /\ calls[n] > 0 => late[n] < calls[n]
        /\ (pc[n] = "returned" /\ res[n] # NilTimeout) =>
              /\ ctxDone
              /\ res[n].type = "TimeoutError"
              /\ res[n].Err = CtxError("ctx")
              /\ res[n].ErrPoll =
                    IF calls[n] = 0 THEN NilErr ELSE WorkErr(n, calls[n])
              /\ sawDone[n] = "entry" <=> calls[n] = 0

\* The context was cancelled during the second invocation of poll, which
\* failed: the TimeoutError carries that invocation's error.
C17_Witness ==
    \E n \in workers :
        /\ pc[n] = "returned"
        /\ cancelledAt[n] = 2
        /\ res[n] = TimeoutError(CtxError("ctx"), WorkErr(n, 2))

----------------------------------------------------------------------------
\* Properties of the Await DSL (checked under SpecAwait)

\* C18 (as claimed). An Await made by WithContext(ctx) stops polling once ctx
\* is cancelled, whatever was configured later: poll is never invoked for the
\* first time while ctx is done, and after ctx is done at most the one
\* invocation begins that the select lets through.
C18_StopsOnceCtxCancelled ==
    \A n \in workers :
        /\ calls[n] > 0 => late[n] < calls[n]
        /\ late[n] <= 1

\* WithContext(ctx).AtMost(d) with ctx already cancelled: UntilNoError polled
\* twice all the same and returned the TimeoutError of the timeout context.
C18_Witness ==
    /\ maxWait = 1
    /\ cpc = "returned"
    /\ \E n \in workers :
          /\ late[n] = 2
          /\ res[n] = TimeoutError(CtxError("timeout"), WorkErr(n, 2))

----------------------------------------------------------------------------
\* Properties of PollAll (checked under SpecPollAll)

\* Poll returned nil for n: one of the invocations of the poll function
\* succeeded.
PollSucceeded(n) == succAt[n] > 0 /\ calls[n] = succAt[n]

\* C19. PollAll returns nil only if every poll function succeeded before the
\* context was done: each of them succeeded, and its first invocation began
\* while the context was not done.
C19_NilOnlyIfSucceededBeforeDone ==
    (cpc = "returned" /\ DOMAIN out = {}) =>
        \A n \in workers : PollSucceeded(n) /\ late[n] < calls[n]

\* PollAll, called with a context that was already done, has invoked both
\* poll functions and returned nil.
C19_Witness ==
    /\ cpc = "returned"
    /\ DOMAIN out = {}
    /\ workers = Names
    /\ \A n \in workers : calls[n] = 1 /\ late[n] = 1

\* What does hold of PollAll: it returns nil if and only if every poll
\* function succeeded, be it after the context was done; otherwise it returns
\* the Errors map whose keys are exactly the polls that failed, each with the
\* *Error its own Poll returned, which wraps the error of its last invocation
\* and is returned only when the context is done.
PollAllReturnsTheFailedPolls ==
    cpc = "returned" =>
        /\ DOMAIN out = {} <=> \A n \in workers : PollSucceeded(n)
        /\ DOMAIN out = {n \in workers : ~PollSucceeded(n)}
        /\ \A n \in DOMAIN out :
              /\ out[n] = res[n].Err
              /\ out[n] = Error(WorkErr(n, calls[n]))
              /\ ctxDone

----------------------------------------------------------------------------
\* PollFirstResult

\* errors.New("timed out"), the error of the entries PollFirstResult itself
\* writes into the Errors map.
TimedOut == [kind |-> "timed out", w |-> "", k |-> 0]

\* What PollFirstResult returns: the FirstResult and the kind of the error
\* ("nil", or "Errors": the map kept in out).
FirstReturn(name, result, e) == [Name |-> name, Result |-> result, err |-> e]

\* PollFirstResult: the channels cancel and firstResult are made, and one
\* goroutine per poll function is started; the caller goes to its select.
PollFirstCall ==
    /\ op = "PollFirstResult"
    /\ cpc = "init"
    /\ cpc' = "wait"
    /\ pc' = [n \in Names |-> IF n \in workers THEN "start" ELSE pc[n]]
    /\ UNCHANGED <<calls, err, timer, res, waits, expiries, late, sawDone>>
    /\ UNCHANGED <<out, ret, recvd>>
    /\ UNCHANGED <<otherVars, planVars, poolVars, ctxDone, childDone, chanVars,
                   cancelledAt>>

\* Goroutine of poll n: PollResult calls Poll, whose loop calls the wrapped
\* poll function (no check of the context before the first invocation).
FirstEntry(n) ==
    /\ op = "PollFirstResult"
    /\ pc[n] = "start"
    /\ pc' = [pc EXCEPT ![n] = "wrap"]
    /\ UNCHANGED <<calls, err, timer, res, waits, expiries, late, sawDone>>
    /\ UNCHANGED <<otherVars, planVars, poolVars, ctxDone, childDone, chanVars,
                   callerVars, cancelledAt>>

\* wrapCancellation: select { case <-cancel: return nil, nil; default: return
\* poll(ctx) }.  With cancel closed Poll gets a nil error and PollResult
\* returns (nil, nil); otherwise the invocation of poll begins.
FirstWrap(n) ==
    /\ op = "PollFirstResult"
    /\ pc[n] = "wrap"
    /\ IF cancelClosed
       THEN /\ pc' = [pc EXCEPT ![n] = "returned"]
            /\ res' = [res EXCEPT ![n] = Success(NilVal)]
            /\ UNCHANGED <<calls, late>>
       ELSE /\ pc' = [pc EXCEPT ![n] = "incall"]
            /\ calls' = [calls EXCEPT ![n] = @ + 1]
            /\ late' = [late EXCEPT ![n] = IF CtxErr THEN @ + 1 ELSE @]
            /\ UNCHANGED res
    /\ UNCHANGED <<err, timer, waits, expiries, sawDone>>
    /\ UNCHANGED <<otherVars, planVars, poolVars, ctxDone, childDone, chanVars,
                   callerVars, cancelledAt>>

\* Poll's select case <-retry.C: the loop calls the wrapped poll function again.
FirstSelectTimer(n) ==
    /\ op = "PollFirstResult"
    /\ pc[n] = "select"
    /\ timer[n] = "fired"
    /\ calls[n] < MaxCalls
    /\ pc' = [pc EXCEPT ![n] = "wrap"]
    /\ timer' = [timer EXCEPT ![n] = "armed"]
    /\ expiries' = [expiries EXCEPT ![n] = @ + 1]
    /\ UNCHANGED <<calls, err, res, waits, late, sawDone>>
    /\ UNCHANGED <<otherVars, planVars, poolVars, ctxDone, childDone, chanVars,
                   callerVars, cancelledAt>>

\* Goroutine of poll n, PollResult returned an error: errsLock.Lock()
FirstErrsLock(n) ==
    /\ op = "PollFirstResult"
    /\ pc[n] = "returned"
    /\ res[n].Err # NoError
    /\ mapLock = ""
    /\ mapLock' = n
    /\ pc' = [pc EXCEPT ![n] = "locked"]
    /\ UNCHANGED <<calls, err, timer, res, waits, expiries, late, sawDone>>
    /\ UNCHANGED <<errorVars, awaitVars, firstVars>>
    /\ UNCHANGED <<planVars, poolVars, ctxDone, childDone, chanVars,
                   callerVars, cancelledAt>>

\* Goroutine of poll n, holding errsLock: select { case <-ctx.Done(): default:
\* errs[name] = err.(*Error) }; errsLock.Unlock(); return
FirstErrsWrite(n) ==
    /\ op = "PollFirstResult"
    /\ pc[n] = "locked"
    /\ out' = IF ctxDone
              THEN out
              ELSE [m \in DOMAIN out \cup {n} |->
                      IF m = n THEN res[n].Err ELSE out[m]]
    /\ mapLock' = ""
    /\ pc' = [pc EXCEPT ![n] = "exited"]
    /\ UNCHANGED <<calls, err, timer, res, waits, expiries, late, sawDone>>
    /\ UNCHANGED <<cpc, ret, recvd>>
    /\ UNCHANGED <<errorVars, awaitVars, firstVars>>
    /\ UNCHANGED <<planVars, poolVars, ctxDone, childDone, chanVars,
                   cancelledAt>>

\* Goroutine of poll n, PollResult returned a result:
\* if atomic.AddInt32(&results, 1) == 1, it goes on to send on firstResult.
FirstCount(n) ==
    /\ op = "PollFirstResult"
    /\ pc[n] = "returned"
    /\ res[n].Err = NoError
    /\ resultsCount' = resultsCount + 1
    /\ pc' = [pc EXCEPT ![n] = IF resultsCount' = 1 THEN "sending" ELSE "exited"]
    /\ UNCHANGED <<calls, err, timer, res, waits, expiries, late, sawDone>>
    /\ UNCHANGED <<errorVars, awaitVars, lockVars, cancelClosed, firstClosed>>
    /\ UNCHANGED <<planVars, poolVars, ctxDone, childDone, chanVars,
                   callerVars, cancelledAt>>

\* firstResult is unbuffered: the send of goroutine n and the receive of the
\* caller's select (case result := <-firstResult) happen together.
FirstDeliver(n) ==
    /\ op = "PollFirstResult"
    /\ pc[n] = "sending"
    /\ cpc = "wait"
    /\ ~firstClosed
    /\ pc' = [pc EXCEPT ![n] = "exited"]
    /\ cpc' = "gotfirst"
    /\ ret' = FirstReturn(n, res[n].Value, "nil")
    /\ recvd' = Append(recvd, namedResult(n, res[n]))
    /\ UNCHANGED <<calls, err, timer, res, waits, expiries, late, sawDone>>
    /\ UNCHANGED out
    /\ UNCHANGED <<otherVars, planVars, poolVars, ctxDone, childDone, chanVars,
                   cancelledAt>>

\* Goroutine n sends on firstResult after the caller's deferred
\* close(firstResult): the send panics.
FirstSendOnClosed(n) ==
    /\ op = "PollFirstResult"
    /\ pc[n] = "sending"
    /\ firstClosed
    /\ pc' = [pc EXCEPT ![n] = "panic"]
    /\ UNCHANGED <<calls, err, timer, res, waits, expiries, late, sawDone>>
    /\ UNCHANGED <<otherVars, planVars, poolVars, ctxDone, childDone, chanVars,
                   callerVars, cancelledAt>>

\* The caller, after case result := <-firstResult: close(cancel); return
\* result, nil; the deferred close(firstResult) runs.
FirstReturnResult ==
    /\ op = "PollFirstResult"
    /\ cpc = "gotfirst"
    /\ cancelClosed' = TRUE
    /\ firstClosed' = TRUE
    /\ cpc' = "returned"
    /\ UNCHANGED <<out, ret, recvd>>
    /\ UNCHANGED <<errorVars, awaitVars, lockVars, resultsCount>>
    /\ UNCHANGED <<planVars, poolVars, ctxDone, childDone, pollVars, chanVars,
                   cancelledAt>>

\* The caller's select takes case <-ctx.Done() (also when a goroutine is
\* ready to send: select picks either case).
FirstSelectCtx ==
    /\ op = "PollFirstResult"
    /\ cpc = "wait"
    /\ ctxDone
    /\ cpc' = "lock"
    /\ UNCHANGED <<out, ret, recvd>>
    /\ UNCHANGED <<otherVars, planVars, poolVars, ctxDone, childDone, pollVars,
                   chanVars, cancelledAt>>

\* Variant of FirstFill that returns the Errors map as the goroutines left it.
FirstFill_NoFill ==
    /\ op = "PollFirstResult"
    /\ cpc = "lock"
    /\ mapLock = ""
    /\ firstClosed' = TRUE
    /\ ret' = FirstReturn("", NilVal, "Errors")
    /\ cpc' = "returned"
    /\ UNCHANGED <<out, recvd>>
    /\ UNCHANGED <<errorVars, awaitVars, lockVars, cancelClosed, resultsCount>>
    /\ UNCHANGED <<planVars, poolVars, ctxDone, childDone, pollVars, chanVars,
                   cancelledAt>>

\* The caller, on ctx.Done(): errsLock.Lock(); every name of polls without an
\* entry in errs gets &Error{errPoll: errors.New("timed out")};
\* errsLock.Unlock(); return FirstResult{}, errs; the deferred
\* close(firstResult) runs.
FirstFill ==
    /\ op = "PollFirstResult"
    /\ cpc = "lock"
    /\ mapLock = ""
    /\ out' = [n \in workers |->
                 IF n \in DOMAIN out THEN out[n] ELSE Error(TimedOut)]
    /\ firstClosed' = TRUE
    /\ ret' = FirstReturn("", NilVal, "Errors")
    /\ cpc' = "returned"
    /\ UNCHANGED recvd
    /\ UNCHANGED <<errorVars, awaitVars, lockVars, cancelClosed, resultsCount>>
    /\ UNCHANGED <<planVars, poolVars, ctxDone, childDone, pollVars, chanVars,
                   cancelledAt>>

InitPollFirst == op = "PollFirstResult" /\ InitGroup

NextPollFirst ==
    \/ PollFirstCall
    \/ \E n \in workers : FirstEntry(n)
    \/ \E n \in workers : FirstWrap(n)
    \/ \E n \in workers : WorkerCancel(n)
    \/ \E n \in workers : PollInvoked(n)
    \/ \E n \in workers : PollCheckCtx(n)
    \/ \E n \in workers : TimerExpire(n)
    \/ \E n \in workers : PollSelectDone(n)
    \/ \E n \in workers : FirstSelectTimer(n)
    \/ CtxBecomesDone
    \/ \E n \in workers : FirstErrsLock(n)
    \/ \E n \in workers : FirstErrsWrite(n)
    \/ \E n \in workers : FirstCount(n)
    \/ \E n \in workers : FirstDeliver(n)
    \/ \E n \in workers : FirstSendOnClosed(n)
    \/ FirstReturnResult
    \/ FirstSelectCtx
    \/ FirstFill

SpecPollFirst == InitPollFirst /\ [][NextPollFirst]_vars

\* C20. PollFirstResult returns either a FirstResult and a nil error, the
\* Name being a registered poll whose invocation succeeded and the Result the
\* value of that invocation, or, the context being done and no success
\* delivered, the zero FirstResult and an Errors map with exactly one entry,
\* an *Error, for every registered poll name.
C20_ResultOrAllErrors ==
    cpc = "returned" =>
        \/ /\ ret.err = "nil"
           /\ ret.Name \in workers
           /\ succAt[ret.Name] > 0
           /\ calls[ret.Name] = succAt[ret.Name]
           /\ ret.Result = WorkVal(ret.Name, succAt[ret.Name])
           /\ recvd = <<namedResult(ret.Name, Success(ret.Result))>>
        \/ /\ ret.err = "Errors"
           /\ ret.Name = ""
           /\ ret.Result = NilVal
           /\ ctxDone
           /\ recvd = <<>>
           /\ DOMAIN out = workers
           /\ \A n \in workers : out[n].type = "Error"

\* PollFirstResult has returned the Errors map with both names although a
\* poll function had succeeded: its goroutine was about to send when the
\* caller's select took ctx.Done().
C20_Witness ==
    /\ cpc = "returned"
    /\ ret.err = "Errors"
    /\ workers = Names
    /\ DOMAIN out = Names
    /\ \E n \in workers : pc[n] \in {"sending", "panic"} /\ res[n].Err = NoError

----------------------------------------------------------------------------
\* Ordering, cancellation and termination of Func (checked under SpecFunc and
\* SpecFuncFair)

\* C21. Sequential invocation within one poll loop: an invocation of the
\* worker begins only when none is in flight; invocation N + 1 begins only
\* after invocation N has returned (with its error) and by consuming one
\* expiry of the retry timer, so that N invocations have consumed exactly
\* N - 1 expiries.
C21_SequentialInvocations ==
    /\ [](\A n \in workers : calls[n] >= 1 => expiries[n] = calls[n] - 1)
    /\ [][\A n \in workers :
            calls'[n] # calls[n] =>
                /\ calls'[n] = calls[n] + 1
                /\ pc[n] # "incall"
                /\ pc'[n] = "incall"
                /\ calls[n] >= 1 =>
                      /\ pc[n] = "select"
                      /\ err[n] = WorkErr(n, calls[n])
                      /\ timer[n] = "fired"
                      /\ expiries'[n] = expiries[n] + 1]_vars

\* The second invocation is in flight, the retry timer, reset when it began,
\* has already expired again, and one expiry has been consumed.
C21_Witness ==
    \E n \in workers :
        /\ pc[n] = "incall"
        /\ calls[n] = 2
        /\ expiries[n] = 1
        /\ timer[n] = "fired"

\* C22. The worker is never invoked after Func has observed the context done:
\* the step in which Func observes it (at the entry check, at the check after
\* a failed invocation, or in the select) begins no invocation and makes Func
\* return a Failure, and from then on no invocation begins.
C22_NoInvocationAfterObservedDone ==
    /\ [](\A n \in workers :
            sawDone[n] # "no" =>
                /\ pc[n] = "returned"
                /\ res[n].Value = NilVal
                /\ res[n].Err.type = "Error")
    /\ [][\A n \in workers :
            (sawDone'[n] # "no") => calls'[n] = calls[n]]_vars

\* Func observed the done context in its select, after two invocations.
C22_Witness ==
    \E n \in workers :
        /\ sawDone[n] = "select"
        /\ pc[n] = "returned"
        /\ calls[n] = 2
        /\ succAt[n] = 0

\* C23. Bounded over-run after cancellation: at most one invocation begins
\* while the context is done; once it has begun no further invocation
\* begins, and when it has failed Func returns from the check of ctx.Err().
C23_BoundedOverrun ==
    /\ [](\A n \in workers :
            /\ late[n] <= 1
            /\ late[n] = 1 =>
                  /\ CtxErr
                  /\ pc[n] \in {"incall", "failed", "returned"}
                  /\ (pc[n] = "returned" /\ res[n].Err # NoError) =>
                        sawDone[n] = "check")
    /\ [][\A n \in workers : late[n] = 1 => calls'[n] = calls[n]]_vars

\* The select took the timer case although the context was done; the late
\* invocation failed and Func returned its error.
C23_Witness ==
    \E n \in workers :
        /\ late[n] = 1
        /\ pc[n] = "returned"
        /\ calls[n] = 2
        /\ res[n] = Failure(Error(WorkErr(n, 2)))

\* C24. No give-up without cancellation: Func returns a Failure only by a
\* step taken with the context done; a failed invocation with the context
\* not done always leads to the wait, and a wait whose timer has expired can
\* always go on to the next invocation (up to the bound of the model).
C24_NoGiveUpWithoutCancellation ==
    /\ [](\A n \in workers :
            /\ (Returned(n) /\ res[n].Err # NoError) =>
                  CtxErr /\ sawDone[n] # "no"
            /\ (pc[n] = "select" /\ timer[n] = "fired" /\ calls[n] < MaxCalls) =>
                  ENABLED SelectTimer(n))
    /\ [][\A n \in workers :
            /\ (pc[n] # "returned" /\ pc'[n] = "returned"
                  /\ res'[n].Err # NoError) => CtxErr
            /\ (pc[n] = "failed" /\ ~CtxErr /\ pc'[n] # "failed") =>
                  pc'[n] = "select" /\ waits'[n] = waits[n] + 1]_vars

\* The worker has failed twice, the context is not done, and Func is waiting
\* for the retry timer again.
C24_Witness ==
    \E n \in workers :
        /\ pc[n] = "select"
        /\ calls[n] = 2
        /\ waits[n] = 2
        /\ ~CtxErr
        /\ err[n] = WorkErr(n, 2)

\* C25. Termination of Func: once the context is done Func returns (every
\* invocation returns under FairFunc), and in its select a done context can
\* always end the wait, whatever the state of the retry timer.
C25_FuncTerminates ==
    /\ [](\A n \in workers :
            (pc[n] = "select" /\ CtxErr) => ENABLED SelectDone(n))
    /\ \A n \in Names :
          (n \in workers /\ ctxDone) ~> (pc[n] = "returned")

\* Func returned from its select with the retry timer still running: the wait
\* was ended by the context alone.
C25_Witness ==
    \E n \in workers :
        /\ pc[n] = "returned"
        /\ sawDone[n] = "select"
        /\ timer[n] = "stopped"
        /\ expiries[n] = 0
        /\ calls[n] = 1

----------------------------------------------------------------------------
\* Termination of All, through workerMap and through workerPool

\* All with any concurrency argument.
InitAllConc ==
    /\ op = "All"
    /\ concurrency \in 0 .. Cardinality(Routines)
    /\ InitRegistry

NextAllConc ==
    \/ NextPoll
    \/ NextPool
    \/ AllRecv
    \/ AllReturn

\* Scheduling of All: every goroutine that can take a step takes it (the
\* caller, the spawning or feeding goroutine, the goroutines of the workers
\* or of the pool), a running timer expires, and a worker invocation that is
\* not waiting on ctx.Done() returns.  Nothing forces the context to become
\* done.
FairAll ==
    /\ \A n \in Names :
          /\ WF_vars(FuncEntry(n))
          /\ WF_vars(WorkerReturn(n))
          /\ WF_vars(CheckCtx(n))
          /\ WF_vars(TimerExpire(n))
          /\ WF_vars(SelectDone(n) \/ SelectTimer(n))
          /\ WF_vars(Send(n))
          /\ WF_vars(WgDone(n))
          /\ WF_vars(Feed(n))
    /\ \A g \in Routines :
          /\ WF_vars(PoolRecv(g))
          /\ WF_vars(PoolSend(g))
          /\ WF_vars(PoolExit(g))
    /\ WF_vars(CallWorkerMap)
    /\ WF_vars(Spawn)
    /\ WF_vars(WaitClose)
    /\ WF_vars(CallWorkerPool)
    /\ WF_vars(CloseInput)
    /\ WF_vars(PoolWaitClose)
    /\ WF_vars(AllRecv)
    /\ WF_vars(AllReturn)

SpecAllFair == InitAllConc /\ [][NextAllConc]_vars /\ FairAll

\* C26. Termination of All: once the context is done All returns, with one
\* goroutine per worker and with the bounded pool alike, and it returns with
\* every goroutine it started finished and both channels drained.
C26_AllTerminates ==
    /\ ctxDone ~> (cpc = "returned")
    /\ [](cpc = "returned" =>
            /\ results = <<>>
            /\ input = <<>>
            /\ wg = 0
            /\ \A n \in workers : pc[n] = "exited"
            /\ \A g \in Pool : ~UsesWorkerMap => gpc[g] = "exited")

\* All has returned through the pool of one goroutine: the first worker
\* failed until the context was done, and the second one, polled only after
\* the first poll had returned, was not invoked at all.
C26_Witness ==
    /\ cpc = "returned"
    /\ ~UsesWorkerMap
    /\ workers = Names
    /\ spc = "done"
    /\ \E n, m \in workers :
          /\ calls[n] = 2
          /\ out[n] = Failure(Error(WorkErr(n, 2)))
          /\ calls[m] = 0
          /\ out[m] = Failure(Error(NilErr))

----------------------------------------------------------------------------
\* goawait.PollAll, the variant returning map[string]Result

\* PollAll: wg.Add(g), the mutex and the map results are made, and one
\* goroutine per poll function is started.
PollAllResultCall ==
    /\ op = "PollAllResult"
    /\ cpc = "init"
    /\ cpc' = "wait"
    /\ wg' = Cardinality(workers)
    /\ pc' = [n \in Names |-> IF n \in workers THEN "spawned" ELSE pc[n]]
    /\ UNCHANGED <<calls, err, timer, res, waits, expiries, late, sawDone>>
    /\ UNCHANGED <<results, closed, spc, out, ret, recvd>>
    /\ UNCHANGED <<otherVars, planVars, poolVars, ctxDone, childDone,
                   cancelledAt>>

\* Variant of ResultLock without the mutex: the goroutine calls Poll, and
\* later writes the map, whoever holds the mutex.
ResultLock_NoMutex(n) ==
    /\ op = "PollAllResult"
    /\ pc[n] = "spawned"
    /\ pc' = [pc EXCEPT ![n] = "start"]
    /\ UNCHANGED <<calls, err, timer, res, waits, expiries, late, sawDone>>
    /\ UNCHANGED <<otherVars, planVars, poolVars, ctxDone, childDone, chanVars,
                   callerVars, cancelledAt>>

\* Goroutine of poll n: mutex.Lock(), and then, the mutex held, the call of
\* Poll in `results[name] = Poll(ctx, retryTime, poll)`.
ResultLock(n) ==
    /\ op = "PollAllResult"
    /\ pc[n] = "spawned"
    /\ mapLock = ""
    /\ mapLock' = n
    /\ pc' = [pc EXCEPT ![n] = "start"]
    /\ UNCHANGED <<calls, err, timer, res, waits, expiries, late, sawDone>>
    /\ UNCHANGED <<errorVars, awaitVars, firstVars>>
    /\ UNCHANGED <<planVars, poolVars, ctxDone, childDone, chanVars,
                   callerVars, cancelledAt>>

\* Goroutine of poll n: Poll has returned; its Result is stored under the
\* poll's name, mutex.Unlock(), and the deferred wg.Done() runs.
ResultStore(n) ==
    /\ op = "PollAllResult"
    /\ pc[n] = "returned"
    /\ out' = [m \in DOMAIN out \cup {n} |-> IF m = n THEN res[n] ELSE out[m]]
    /\ mapLock' = IF mapLock = n THEN "" ELSE mapLock
    /\ pc' = [pc EXCEPT ![n] = "exited"]
    /\ wg' = wg - 1
    /\ UNCHANGED <<calls, err, timer, res, waits, expiries, late, sawDone>>
    /\ UNCHANGED <<results, closed, spc>>
    /\ UNCHANGED <<cpc, ret, recvd>>
    /\ UNCHANGED <<errorVars, awaitVars, firstVars>>
    /\ UNCHANGED <<planVars, poolVars, ctxDone, childDone, cancelledAt>>

\* PollAll: wg.Wait(); return results
PollAllResultReturn ==
    /\ op = "PollAllResult"
    /\ cpc = "wait"
    /\ wg = 0
    /\ cpc' = "returned"
    /\ UNCHANGED <<out, ret, recvd>>
    /\ UNCHANGED <<otherVars, planVars, poolVars, ctxDone, childDone, pollVars,
                   chanVars, cancelledAt>>

InitPollAllResult == op = "PollAllResult" /\ InitGroup

NextPollAllResult ==
    \/ NextPollLoop
    \/ PollAllResultCall
    \/ \E n \in workers : ResultLock(n)
    \/ \E n \in workers : ResultStore(n)
    \/ PollAllResultReturn

SpecPollAllResult == InitPollAllResult /\ [][NextPollAllResult]_vars

\* The poll loop of name n is in progress: Poll was called and has not
\* returned.
Polling(n) == pc[n] \in {"start", "incall", "failed", "select"}

\* C27. PollAll starts one concurrent execution of Poll per registry entry:
\* a goroutine that has not called Poll yet can always do so, also while
\* another name's poll loop is in progress.
C27_PollLoopsRunConcurrently ==
    \A n \in workers : pc[n] = "spawned" => ENABLED ResultLock(n)

\* One name's poll loop is waiting for its retry timer, the context not done,
\* and the goroutine of the other name has not called Poll.
C27_Witness ==
    \E n, m \in workers :
        /\ pc[n] = "select"
        /\ calls[n] = 2
        /\ ~ctxDone
        /\ pc[m] = "spawned"
        /\ ~ENABLED ResultLock(m)

\* What does hold of this PollAll: Poll is called with the mutex of the map
\* held, so at most one name's poll loop is in progress at any time, and a
\* poll function is invoked only when every other name's poll loop has not
\* begun or has returned.
PollAllResultIsSerialized ==
    \A n, m \in workers :
        (n # m /\ Polling(n)) => pc[m] \in {"spawned", "exited"}

----------------------------------------------------------------------------
\* goawait.Poll, the variant returning a Result: one call

\* One poll function, its behaviour, and the state of the context as Poll is
\* called.
InitPollOne ==
    /\ IdleOthers
    /\ op = "Poll"
    /\ concurrency = 0
    /\ \E n \in Names : workers = {n}
    /\ succAt \in [Names -> 0 .. MaxCalls]
    /\ blocks \in [Names -> BOOLEAN]
    /\ \A n \in Names \ workers : succAt[n] = 0 /\ ~blocks[n]
    /\ ctxDone \in BOOLEAN
    /\ pc = [n \in Names |-> IF n \in workers THEN "start" ELSE "idle"]
    /\ spc = "none"
    /\ cpc = "none"
    /\ InitPoll

SpecPollOne == InitPollOne /\ [][NextPollLoop]_vars

\* C30. Poll, called with a context that is already done (no invocation has
\* begun with the context not done), does not invoke the poll function, and
\* returns a Failure whose *Error has no underlying error.
C30_PollFastFail ==
    \A n \in workers :
        late[n] = calls[n] =>
            /\ calls[n] = 0
            /\ pc[n] = "returned" => res[n] = Failure(Error(NilErr))

\* Poll was called with the context done, has invoked a poll function that
\* succeeds at once, and has returned its value as a success.
C30_Witness ==
    \E n \in workers :
        /\ pc[n] = "returned"
        /\ calls[n] = 1
        /\ late[n] = 1
        /\ cancelledAt[n] = 0
        /\ res[n] = Success(WorkVal(n, 1))

----------------------------------------------------------------------------
\* goawait.PollFirst

\* PollFirst: results := make(chan Result, g); ctx, cancel :=
\* context.WithCancel(ctx); defer cancel(); one goroutine per poll function.
PollFirstResultsCall ==
    /\ op = "PollFirst"
    /\ cpc = "init"
    /\ cpc' = "loop"
    /\ pc' = [n \in Names |-> IF n \in workers THEN "start" ELSE pc[n]]
    /\ UNCHANGED <<calls, err, timer, res, waits, expiries, late, sawDone>>
    /\ UNCHANGED <<out, ret, recvd>>
    /\ UNCHANGED <<otherVars, planVars, poolVars, ctxDone, childDone, chanVars,
                   cancelledAt>>

\* Goroutine of poll n: results <- Poll(ctx, retryTime, poll).  The channel
\* has capacity g = len(polls).  (The name is kept with the Result to trace
\* it; the program sends the Result alone.)
PollFirstSend(n) ==
    /\ op = "PollFirst"
    /\ pc[n] = "returned"
    /\ Len(results) < Cardinality(workers)
    /\ results' = Append(results, namedResult(n, res[n]))
    /\ pc' = [pc EXCEPT ![n] = "exited"]
    /\ UNCHANGED <<calls, err, timer, res, waits, expiries, late, sawDone>>
    /\ UNCHANGED <<closed, wg, spc>>
    /\ UNCHANGED <<otherVars, planVars, poolVars, ctxDone, childDone,
                   callerVars, cancelledAt>>

\* The loop `for i := 0; i < g; i++`, select case result := <-results:
\* a success is returned, a Failure counted.
PollFirstRecv ==
    /\ op = "PollFirst"
    /\ cpc = "loop"
    /\ Len(recvd) < Cardinality(workers)
    /\ results # <<>>
    /\ LET r == Head(results) IN
         /\ recvd' = Append(recvd, r)
         /\ IF r.Result.Err = NoError
            THEN /\ ret' = r.Result
                 /\ cpc' = "defer"
            ELSE UNCHANGED <<cpc, ret>>
    /\ results' = Tail(results)
    /\ UNCHANGED <<closed, wg, spc, out>>
    /\ UNCHANGED <<otherVars, planVars, poolVars, ctxDone, childDone, pollVars,
                   cancelledAt>>

\* Variant of PollFirstSelectDone that returns only when no poll function is
\* executing any more.
PollFirstSelectDone_WaitsForPolls ==
    /\ op = "PollFirst"
    /\ cpc = "loop"
    /\ Len(recvd) < Cardinality(workers)
    /\ CtxErr
    /\ \A n \in workers : pc[n] \in {"returned", "exited"}
    /\ ret' = Failure(Error(NilErr))
    /\ cpc' = "defer"
    /\ UNCHANGED <<out, recvd>>
    /\ UNCHANGED <<otherVars, planVars, poolVars, ctxDone, childDone, pollVars,
                   chanVars, cancelledAt>>

\* The loop's select case <-ctx.Done(): return Result{Err: &Error{since: ...}}
PollFirstSelectDone ==
    /\ op = "PollFirst"
    /\ cpc = "loop"
    /\ Len(recvd) < Cardinality(workers)
    /\ CtxErr
    /\ ret' = Failure(Error(NilErr))
    /\ cpc' = "defer"
    /\ UNCHANGED <<out, recvd>>
    /\ UNCHANGED <<otherVars, planVars, poolVars, ctxDone, childDone, pollVars,
                   chanVars, cancelledAt>>

\* The loop ends after g Failures: return the Failure "all poll functions
\* failed".
PollFirstAllFailed ==
    /\ op = "PollFirst"
    /\ cpc = "loop"
    /\ Len(recvd) = Cardinality(workers)
    /\ ret' = Failure(Error(AllFailed))
    /\ cpc' = "defer"
    /\ UNCHANGED <<out, recvd>>
    /\ UNCHANGED <<otherVars, planVars, poolVars, ctxDone, childDone, pollVars,
                   chanVars, cancelledAt>>

\* The deferred cancel() of the derived context runs as PollFirst returns.
PollFirstDeferCancel ==
    /\ op = "PollFirst"
    /\ cpc = "defer"
    /\ childDone' = TRUE
    /\ cpc' = "returned"
    /\ UNCHANGED <<out, ret, recvd>>
    /\ UNCHANGED <<otherVars, planVars, poolVars, ctxDone, pollVars, chanVars,
                   cancelledAt>>

InitPollFirstResults == op = "PollFirst" /\ InitGroup

NextPollFirstResults ==
    \/ NextPollLoop
    \/ PollFirstResultsCall
    \/ \E n \in workers : PollFirstSend(n)
    \/ PollFirstRecv
    \/ PollFirstSelectDone
    \/ PollFirstAllFailed
    \/ PollFirstDeferCancel

\* Scheduling of the caller of PollFirst alone: it takes the steps it can
\* take.  Nothing is assumed of the goroutines or of the poll functions: an
\* invocation may go on for ever.
FairPollFirstCaller ==
    /\ WF_vars(PollFirstResultsCall)
    /\ WF_vars(PollFirstRecv \/ PollFirstSelectDone \/ PollFirstAllFailed)
    /\ WF_vars(PollFirstDeferCancel)

SpecPollFirstResults ==
    InitPollFirstResults /\ [][NextPollFirstResults]_vars /\ FairPollFirstCaller

----------------------------------------------------------------------------
\* The shared aggregate of the group operations

\* One call of All, of PollAll (Result variant) or of PollFirstResult.
InitGroups ==
    /\ op \in {"All", "PollAllResult", "PollFirstResult"}
    /\ InitGroup

NextGroups ==
    \/ op = "All" /\ NextAll
    \/ op = "PollAllResult" /\ NextPollAllResult
    \/ op = "PollFirstResult" /\ NextPollFirst

SpecGroups == InitGroups /\ [][NextGroups]_vars

\* Goroutine n is between the Lock and the Unlock of the mutex that guards
\* the map: in PollAll from the call of Poll to the write of its Result, in
\* PollFirstResult around the write of its error.
InCriticalSection(n) ==
    \/ op = "PollAllResult"
         /\ pc[n] \in {"start", "incall", "failed", "select", "returned"}
    \/ op = "PollFirstResult" /\ pc[n] = "locked"

\* C28 (as claimed). Access to the result map is serialized, and each worker
\* contributes exactly one write under its own name: when the group
\* operation returns, the map has one entry for every worker.
C28_OneWritePerWorker ==
    /\ \A n \in workers : InCriticalSection(n) => mapLock = n
    /\ cpc = "returned" => DOMAIN out = workers

\* C28 (amended). Access to the result map is serialized: a goroutine is
\* inside the critical section only while it holds the mutex; a write adds
\* one entry and never overwrites one; the map does not change once the
\* caller has returned.  In All the caller alone writes, one entry per
\* received namedResult, under the worker's name; in PollAll each goroutine
\* writes its own Result once, holding the mutex; at their return the map
\* has exactly one entry per worker, the worker's Result.  In
\* PollFirstResult no goroutine ever writes: the caller writes every entry,
\* with the mutex free, in the step that returns on ctx.Done(), and on the
\* success path the map stays empty.
C28_SerializedAccess ==
    /\ [](/\ \A n \in workers : InCriticalSection(n) => mapLock = n
          /\ (cpc = "returned" /\ op \in {"All", "PollAllResult"}) =>
                /\ DOMAIN out = workers
                /\ \A n \in workers : out[n] = res[n]
          /\ (cpc = "returned" /\ op = "PollFirstResult") =>
                \/ ret.err = "nil" /\ DOMAIN out = {}
                \/ ret.err = "Errors" /\ DOMAIN out = workers)
    /\ [][out' # out =>
            /\ cpc # "returned"
            /\ \A n \in DOMAIN out : n \in DOMAIN out' /\ out'[n] = out[n]
            /\ op = "All" =>
                  /\ results # <<>>
                  /\ results' = Tail(results)
                  /\ DOMAIN out' = DOMAIN out \cup {Head(results).name}
                  /\ out'[Head(results).name] = res[Head(results).name]
                  /\ mapLock = ""
            /\ op = "PollAllResult" =>
                  \E n \in workers :
                      /\ mapLock = n
                      /\ pc[n] = "returned" /\ pc'[n] = "exited"
                      /\ DOMAIN out' = DOMAIN out \cup {n}
                      /\ out'[n] = res[n]
            /\ op = "PollFirstResult" =>
                  /\ mapLock = ""
                  /\ cpc = "lock" /\ cpc' = "returned"
                  /\ ctxDone
                  /\ DOMAIN out = {}]_vars

\* PollFirstResult has returned the FirstResult of one poll function; the
\* other one failed and went through the critical section without writing,
\* and the Errors map is empty.
C28_Witness ==
    /\ op = "PollFirstResult"
    /\ cpc = "returned"
    /\ ret.err = "nil"
    /\ workers = Names
    /\ DOMAIN out = {}
    /\ \E n \in workers :
          /\ pc[n] = "exited"
          /\ res[n].Err # NoError

----------------------------------------------------------------------------
\* UntilTrue: UntilNoError over an adapter of the boolean poll function

\* What invocation k of the boolean poll function returns.
PollTrue(n, k) == succAt[n] = k

\* Variant of Adapter with the test inverted: nil when poll returned false.
Adapter_Inverted(b) == IF b THEN PollFailed ELSE NilErr

\* The adapter f of UntilTrue: if poll(ctx) { return nil }; return
\* errors.New("poll failed")
Adapter(b) == IF b THEN NilErr ELSE PollFailed

\* The error-returning poll function q of the comparison: nil when the
\* boolean poll function is true, the error "poll failed" when it is false.
ErrorPoll(n, k) == IF PollTrue(n, k) THEN NilErr ELSE PollFailed

\* UntilNoError's `err := poll(ctx)` where poll is the function e of the
\* invocation number: nil ends the loop with nil, an error is kept in err.
InvokeReturns(n, e) ==
    /\ pc[n] = "incall"
    /\ blocks[n] => ctxDone
    /\ IF e = NilErr
       THEN /\ pc' = [pc EXCEPT ![n] = "returned"]
            /\ res' = [res EXCEPT ![n] = NilTimeout]
            /\ UNCHANGED err
       ELSE /\ pc' = [pc EXCEPT ![n] = "failed"]
            /\ err' = [err EXCEPT ![n] = e]
            /\ UNCHANGED res
    /\ UNCHANGED <<calls, timer, waits, expiries, late, sawDone>>
    /\ UNCHANGED <<otherVars, planVars, poolVars, ctxDone, childDone, chanVars,
                   callerVars, cancelledAt>>

\* UntilTrue: the loop of UntilNoError invokes the adapter, which invokes the
\* boolean poll function.
UntilTruePoll(n) == InvokeReturns(n, Adapter(PollTrue(n, calls[n])))

\* UntilNoError called directly with the error-returning poll function.
UntilNoErrorPoll(n) == InvokeReturns(n, ErrorPoll(n, calls[n]))

\* One call of UntilTrue(ctx, retryTime, poll).
InitUntilTrue ==
    /\ op = "UntilTrue"
    /\ concurrency = 0
    /\ \E n \in Names : workers = {n}
    /\ succAt \in [Names -> 0 .. MaxCalls]
    /\ blocks \in [Names -> BOOLEAN]
    /\ \A n \in Names \ workers : succAt[n] = 0 /\ ~blocks[n]
    /\ ctxDone \in BOOLEAN
    /\ pc = [n \in Names |-> IF n \in workers THEN "start" ELSE "idle"]
    /\ spc = "none"
    /\ cpc = "none"
    /\ InitPoll
    /\ IdleError
    /\ IdleLocks
    /\ maxWait = -1
    /\ loopCtx = "ctx"
    /\ timeoutDone = FALSE

\* The steps of UntilNoError around the invocation of its poll function.
NextUntilFrame ==
    \/ \E n \in workers : UntilEntry(n)
    \/ \E n \in workers : WorkerCancel(n)
    \/ \E n \in workers : UntilCheck(n)
    \/ \E n \in workers : TimerExpire(n)
    \/ \E n \in workers : UntilSelectDone(n)
    \/ \E n \in workers : UntilSelectTimer(n)
    \/ CtxBecomesDone

NextUntilTrue ==
    \/ NextUntilFrame
    \/ \E n \in workers : UntilTruePoll(n)

\* The steps of UntilNoError(ctx, i, q), q the error-returning poll function.
NextUntilNoErrorOverErrorPoll ==
    \/ NextUntilFrame
    \/ \E n \in workers : UntilNoErrorPoll(n)

SpecUntilTrue == InitUntilTrue /\ [][NextUntilTrue]_vars

\* C31. UntilTrue is UntilNoError over an adapter: every step of a run of
\* UntilTrue over the boolean poll function p is a step of UntilNoError over
\* the error-returning q, and wherever UntilNoError over q can take its step
\* UntilTrue can, so both make the same invocations and return in the same
\* runs.  UntilTrue returns nil exactly when the invocation just made
\* returned true; the TimeoutError it returns otherwise has the synthetic
\* error "poll failed" as ErrPoll, and nil when the context was done at
\* entry.
C31_UntilTrueIsUntilNoErrorOverAdapter ==
    /\ [][NextUntilNoErrorOverErrorPoll]_vars
    /\ [](\A n \in workers :
            /\ ENABLED UntilNoErrorPoll(n) => ENABLED UntilTruePoll(n)
            /\ pc[n] = "returned" =>
                  /\ res[n] = NilTimeout <=>
                        (calls[n] > 0 /\ PollTrue(n, calls[n]))
                  /\ res[n] # NilTimeout =>
                        /\ res[n].type = "TimeoutError"
                        /\ res[n].ErrPoll =
                              IF calls[n] = 0 THEN NilErr ELSE PollFailed)

\* UntilTrue returned a TimeoutError with the synthetic error after two
\* invocations that returned false, for a poll function that would have
\* returned true on no invocation.
C31_Witness ==
    \E n \in workers :
        /\ op = "UntilTrue"
        /\ pc[n] = "returned"
        /\ calls[n] = 2
        /\ succAt[n] = 0
        /\ res[n] = TimeoutError(CtxError("ctx"), PollFailed)

----------------------------------------------------------------------------
\* First through workerPool with more workers than pool goroutines

\* A registry may hold more names than the pool has goroutines and the
\* results channel has slots.
PoolNames == Names \cup {"w3"}

\* First is called with 0 < concurrency < len(workers): a pool of one
\* goroutine for a registry of two or of three workers.
InitFirstPool ==
    /\ op = "First"
    /\ concurrency = Cardinality(Routines)
    /\ workers \in {Names, PoolNames}
    /\ succAt \in [PoolNames -> 0 .. MaxCalls]
    /\ blocks \in [PoolNames -> BOOLEAN]
    /\ \A n \in PoolNames \ workers : succAt[n] = 0 /\ ~blocks[n]
    /\ ctxDone \in BOOLEAN
    /\ pc = NoneOf(PoolNames, "idle")
    /\ spc = "none"
    /\ cpc = "init"
    /\ calls = NoneOf(PoolNames, 0)
    /\ err = NoneOf(PoolNames, NilErr)
    /\ timer = NoneOf(PoolNames, "nil")
    /\ res = NoneOf(PoolNames, NoResult)
    /\ waits = NoneOf(PoolNames, 0)
    /\ expiries = NoneOf(PoolNames, 0)
    /\ late = NoneOf(PoolNames, 0)
    /\ cancelledAt = NoneOf(PoolNames, 0)
    /\ sawDone = NoneOf(PoolNames, "no")
    /\ childDone = FALSE
    /\ results = <<>>
    /\ closed = FALSE
    /\ wg = 0
    /\ out = [n \in {} |-> NoResult]
    /\ ret = NoResult
    /\ recvd = <<>>
    /\ input = <<>>
    /\ inputClosed = FALSE
    /\ fed = {}
    /\ gpc = NoneOf(Routines, "idle")
    /\ gcur = NoneOf(Routines, "")
    /\ IdleOthers

NextFirstPool ==
    \/ \E n \in workers : FuncEntry(n)
    \/ \E n \in workers : WorkerCancel(n)
    \/ \E n \in workers : WorkerReturn(n)
    \/ \E n \in workers : CheckCtx(n)
    \/ \E n \in workers : TimerExpire(n)
    \/ \E n \in workers : SelectDone(n)
    \/ \E n \in workers : SelectTimer(n)
    \/ CtxBecomesDone
    \/ NextPool
    \/ FirstRecv
    \/ FirstAllFailed
    \/ FirstDeferCancel

\* Scheduling of First over the pool: every goroutine that can take a step
\* takes it, a running timer expires, and a worker invocation that is not
\* waiting on ctx.Done() returns.  Nothing forces the caller's context to
\* become done.
FairFirstPool ==
    /\ \A n \in PoolNames :
          /\ WF_vars(FuncEntry(n))
          /\ WF_vars(WorkerReturn(n))
          /\ WF_vars(CheckCtx(n))
          /\ WF_vars(TimerExpire(n))
          /\ WF_vars(SelectDone(n) \/ SelectTimer(n))
          /\ WF_vars(Feed(n))
    /\ \A g \in Routines :
          /\ WF_vars(PoolRecv(g))
          /\ WF_vars(PoolSend(g))
          /\ WF_vars(PoolExit(g))
    /\ WF_vars(CallWorkerPool)
    /\ WF_vars(CloseInput)
    /\ WF_vars(PoolWaitClose)
    /\ WF_vars(FirstRecv)
    /\ WF_vars(FirstAllFailed)
    /\ WF_vars(FirstDeferCancel)

SpecFirstPool == InitFirstPool /\ [][NextFirstPool]_vars /\ FairFirstPool

\* First has returned a success.
FirstReturnedSuccess == cpc = "returned" /\ ret # NoResult /\ ret.Err = NoError

\* C32. No goroutine leak after First in pool mode: once First has returned
\* on a success, every pool goroutine and the feeding goroutine eventually
\* terminate.
C32_PoolGoroutinesTerminate ==
    FirstReturnedSuccess ~>
        (spc = "done" /\ \A g \in Pool : gpc[g] = "exited")

\* First has returned the success of the first worker polled, the pool
\* goroutine has put the second worker's Result into the only slot of the
\* results channel and is blocked on the send of the third worker's Result;
\* the feeding goroutine waits in wg.Wait().
C32_Witness ==
    /\ FirstReturnedSuccess
    /\ workers = PoolNames
    /\ Len(results) = concurrency
    /\ spc = "poolwait"
    /\ \E g \in Pool :
          /\ gpc[g] = "run"
          /\ pc[gcur[g]] = "returned"
          /\ ~ENABLED PoolSend(g)

\* Some registered worker succeeds on its first invocation, without waiting
\* for the context.
SomeWorkerSucceedsAtOnce == \E n \in workers : succAt[n] = 1 /\ ~blocks[n]

\* A poll loop has made MaxCalls invocations and would go on to the next one:
\* the run leaves the part of the behaviour that is modelled.
BeyondMaxCalls == \E n \in workers : pc[n] = "select" /\ calls[n] = MaxCalls

\* C33. Liveness of First in pool mode: when some registered worker succeeds
\* on its first invocation and the context never becomes done, First
\* eventually returns a success, in whatever order the registry is fed to the
\* pool and however the other workers behave.  Runs in which a poll loop
\* goes beyond MaxCalls invocations are left out, so that a run that does not
\* reach the return is one in which the program itself makes no progress.
C33_FirstPoolReturnsSuccess ==
    (cpc = "init" /\ SomeWorkerSucceedsAtOnce) ~>
        (ctxDone \/ FirstReturnedSuccess \/ BeyondMaxCalls)

\* The only pool goroutine is inside the first invocation of a worker that
\* returns only when the context is done; a worker that would succeed at once
\* waits in the input channel, the context is not done and First is still in
\* its range loop.
C33_Witness ==
    /\ cpc = "range"
    /\ ~ctxDone
    /\ \E g \in Pool :
          /\ gpc[g] = "run"
          /\ blocks[gcur[g]]
          /\ calls[gcur[g]] = 1
          /\ pc[gcur[g]] = "incall"
          /\ ~ENABLED WorkerReturn(gcur[g])
    /\ \E n \in workers :
          /\ succAt[n] = 1
          /\ ~blocks[n]
          /\ input = <<n>>

----------------------------------------------------------------------------
\* PollFirstResult: the send on firstResult and the deferred close

\* C34. PollFirstResult never sends on a closed channel: in every
\* interleaving no goroutine sends on firstResult after PollFirstResult has
\* returned and closed it.
C34_NoSendOnClosedChannel ==
    \A n \in workers : pc[n] # "panic"

\* The context became done while a poll succeeded: the caller's select took
\* case <-ctx.Done(), PollFirstResult returned the Errors map and closed
\* firstResult, and the goroutine of the successful poll, the first to count
\* itself, has sent on the closed channel.
C34_Witness ==
    /\ op = "PollFirstResult"
    /\ cpc = "returned"
    /\ ret = FirstReturn("", NilVal, "Errors")
    /\ firstClosed
    /\ ctxDone
    /\ \E n \in workers :
          /\ pc[n] = "panic"
          /\ res[n].Err = NoError
          /\ resultsCount = 1

----------------------------------------------------------------------------
\* First and PollFirst: the derived context and the caller's context

\* First with any concurrency argument (await.go), or PollFirst (goawait.go).
InitFirsts ==
    \/ op = "First" /\ concurrency \in 0 .. Cardinality(Routines) /\ InitRegistry
    \/ InitPollFirstResults

NextFirsts ==
    \/ op = "First" /\ NextPoll
    \/ op = "First" /\ NextPool
    \/ FirstRecv
    \/ FirstAllFailed
    \/ FirstDeferCancel
    \/ op = "PollFirst" /\ NextPollFirstResults

SpecFirsts == InitFirsts /\ [][NextFirsts]_vars

\* The caller's context is made done from outside First: its deadline passes
\* or somebody (here a worker) calls its cancel function.
CancelledFromOutside == CtxBecomesDone \/ \E n \in workers : WorkerCancel(n)

\* C35. First leaves the caller's context untouched: no step of First or
\* PollFirst, of their goroutines or of the poll loops changes the state of
\* the caller's context, which changes only by being cancelled from outside;
\* the deferred cancel() makes the derived context done, and only as the
\* operation returns, with a success or with a Failure alike.
C35_CallerContextUntouched ==
    /\ [][ctxDone' # ctxDone => CancelledFromOutside]_vars
    /\ [][childDone' # childDone =>
            /\ cpc = "defer" /\ cpc' = "returned"
            /\ childDone'
            /\ ctxDone' = ctxDone]_vars
    /\ [](cpc = "returned" => childDone)

\* First has returned a success through the pool, its deferred cancel() has
\* made the derived context done, and the caller's context is not done.
C35_Witness ==
    /\ op = "First"
    /\ ~UsesWorkerMap
    /\ FirstReturnedSuccess
    /\ childDone
    /\ ~ctxDone

----------------------------------------------------------------------------
\* All and First with a negative concurrency argument

\* The caller (All or First) calls workerPool with g = concurrency < 0, as the
\* switch does for every negative argument (it is not 0 and it is less than
\* len(workers)): make(chan namedResult, g) panics with a negative size, and
\* so would wg.Add(g) with nothing added before.
CallWorkerPoolNegative ==
    /\ cpc = "init"
    /\ ~UsesWorkerMap
    /\ concurrency < 0
    /\ cpc' = "panic"
    /\ UNCHANGED <<out, ret, recvd>>
    /\ UNCHANGED <<otherVars, planVars, poolVars, ctxDone, childDone, pollVars,
                   chanVars, cancelledAt>>

\* All and First with a concurrency argument of either sign.
InitAnyConc ==
    /\ op \in {"All", "First"}
    /\ concurrency \in (0 - Cardinality(Routines)) .. Cardinality(Routines)
    /\ InitRegistry

NextAnyConc ==
    \/ NextConc
    \/ CallWorkerPoolNegative

SpecAnyConc == InitAnyConc /\ [][NextAnyConc]_vars

\* C36. All and First accept every integer concurrency value: whatever the
\* argument, negative values included, the call does not panic, All returns
\* a map with one entry per registered worker and First returns one Result.
C36_AnyConcurrencyAccepted ==
    /\ cpc # "panic"
    /\ (cpc = "returned" /\ op = "All") => DOMAIN out = workers
    /\ (cpc = "returned" /\ op = "First") => ret # NoResult

\* All was called with concurrency -1 for a registry of two workers and has
\* panicked in workerPool before any goroutine was started.
C36_Witness ==
    /\ op = "All"
    /\ concurrency < 0
    /\ workers = Names
    /\ cpc = "panic"
    /\ spc = "none"
    /\ \A n \in workers : pc[n] = "idle"

----------------------------------------------------------------------------
\* The channel protocols of workerMap and workerPool

\* The namedResults sent so far over the results channel: those received by
\* the caller, then those still in the buffer.
SentSoFar == recvd \o results

\* The worker goroutines that have done their send.
HaveSent == {n \in workers : pc[n] \in {"sent", "exited"}}

\* C37. workerMap channel protocol: a worker goroutine whose Func has returned
\* can always send, also when the consumer has stopped reading, since the
\* channel has one slot per worker; each goroutine sends exactly one
\* namedResult, under its own name; the channel is closed once, by the
\* spawning goroutine after every worker goroutine has sent and finished, and
\* nothing is sent after the close.
C37_WorkerMapChannelProtocol ==
    /\ [](\A n \in workers : pc[n] = "returned" => ENABLED Send(n))
    /\ [](/\ Len(SentSoFar) = Cardinality(HaveSent)
          /\ \A n \in HaveSent :
                \E i \in 1 .. Len(SentSoFar) :
                    SentSoFar[i] = namedResult(n, res[n])
          /\ Len(results) <= ChanCap)
    /\ [](closed => \A n \in workers : pc[n] = "exited")
    /\ [][closed => closed' /\ Len(results') <= Len(results)]_vars
    /\ [][closed' # closed => spc = "wait" /\ spc' = "done"]_vars
    /\ [][spc = "done" => spc' = "done"]_vars

\* First has returned the success of one worker and reads no more; the other
\* worker's goroutine has sent its Result all the same and the channel was
\* closed with that Result left in its buffer.
C37_Witness ==
    /\ op = "First"
    /\ UsesWorkerMap
    /\ workers = Names
    /\ cpc = "returned"
    /\ closed
    /\ Len(recvd) = 1
    /\ Len(results) = 1
    /\ results[1].name # recvd[1].name

\* The goroutines of a pool of two.
PoolRoutines == Routines \cup {"g2"}

\* All is called with a registry of three workers and a pool of two
\* goroutines.  Each worker succeeds on its first invocation or never does,
\* its invocations return without waiting for ctx.Done(), and the context
\* becomes done from the caller's side only.
InitAllPool ==
    /\ op = "All"
    /\ concurrency = Cardinality(PoolRoutines)
    /\ workers = PoolNames
    /\ succAt \in [PoolNames -> 0 .. 1]
    /\ blocks = NoneOf(PoolNames, FALSE)
    /\ ctxDone \in BOOLEAN
    /\ pc = NoneOf(PoolNames, "idle")
    /\ spc = "none"
    /\ cpc = "init"
    /\ calls = NoneOf(PoolNames, 0)
    /\ err = NoneOf(PoolNames, NilErr)
    /\ timer = NoneOf(PoolNames, "nil")
    /\ res = NoneOf(PoolNames, NoResult)
    /\ waits = NoneOf(PoolNames, 0)
    /\ expiries = NoneOf(PoolNames, 0)
    /\ late = NoneOf(PoolNames, 0)
    /\ cancelledAt = NoneOf(PoolNames, 0)
    /\ sawDone = NoneOf(PoolNames, "no")
    /\ childDone = FALSE
    /\ results = <<>>
    /\ closed = FALSE
    /\ wg = 0
    /\ out = [n \in {} |-> NoResult]
    /\ ret = NoResult
    /\ recvd = <<>>
    /\ input = <<>>
    /\ inputClosed = FALSE
    /\ fed = {}
    /\ gpc = NoneOf(PoolRoutines, "idle")
    /\ gcur = NoneOf(PoolRoutines, "")
    /\ IdleOthers

NextAllPool ==
    \/ \E n \in workers : FuncEntry(n)
    \/ \E n \in workers : WorkerReturn(n)
    \/ \E n \in workers : CheckCtx(n)
    \/ \E n \in workers : TimerExpire(n)
    \/ \E n \in workers : SelectDone(n)
    \/ \E n \in workers : SelectTimer(n)
    \/ CtxBecomesDone
    \/ NextPool
    \/ AllRecv
    \/ AllReturn

SpecAllPool == InitAllPool /\ [][NextAllPool]_vars

\* The pool goroutines that are polling worker n.
Holders(n) == {g \in Pool : gpc[g] = "run" /\ gcur[g] = n}

\* How many times name n waits in the input channel, and how many
\* namedResults of n were sent over the results channel: those in its buffer
\* and the one All has received and stored under n.
TimesQueued(n) == Cardinality({i \in 1 .. Len(input) : input[i] = n})

TimesSent(n) ==
    Cardinality({i \in 1 .. Len(results) : results[i].name = n})
        + IF n \in DOMAIN out THEN 1 ELSE 0

\* The namedResult of n, with the Result its Func returned, is in the buffer
\* of the results channel or was received by All.
Delivered(n) ==
    \/ \E i \in 1 .. Len(results) : results[i] = namedResult(n, res[n])
    \/ n \in DOMAIN out /\ out[n] = res[n]

\* C38. workerPool dispatch: at any time a registry entry is either not fed
\* yet, or once in the input channel, or being polled by exactly one pool
\* goroutine, or done with exactly one namedResult sent; it is handed to a
\* goroutine only from the input channel and never again afterwards.  The
\* results channel is closed only after the input channel was closed and
\* every pool goroutine has exited, with no entry dropped, and the consumer
\* that drains the channel has received exactly one namedResult per
\* registered name.
C38_PoolDispatch ==
    /\ [](\A n \in workers :
            /\ TimesQueued(n) + Cardinality(Holders(n)) + TimesSent(n) =
                  IF n \in fed THEN 1 ELSE 0
            /\ TimesQueued(n) = 1 <=> (n \in fed /\ pc[n] = "idle")
            /\ TimesSent(n) = 1 <=> pc[n] = "exited"
            /\ pc[n] = "exited" => Delivered(n))
    /\ [][\A n \in workers :
            (pc'[n] = "start" /\ pc[n] # "start") =>
                /\ pc[n] = "idle"
                /\ input # <<>> /\ Head(input) = n
                /\ Cardinality(Holders(n)') = 1]_vars
    /\ [](closed =>
            /\ inputClosed
            /\ input = <<>>
            /\ fed = workers
            /\ \A g \in Pool : gpc[g] = "exited"
            /\ \A n \in workers : pc[n] = "exited")
    /\ [](cpc = "returned" =>
            /\ closed
            /\ results = <<>>
            /\ DOMAIN out = workers
            /\ \A n \in workers : out[n] = res[n])

\* All has drained the results channel of a pool of two goroutines for three
\* workers: it received the namedResult of each of them, and each of the two
\* goroutines polled at least one of the workers.
C38_Witness ==
    /\ op = "All"
    /\ cpc = "returned"
    /\ Cardinality(Pool) = 2
    /\ Cardinality(workers) = 3
    /\ DOMAIN out = workers
    /\ \A g \in Pool : gcur[g] \in workers
    /\ \E g, h \in Pool : gcur[g] # gcur[h]

====
